---- MODULE Spec2Model ----
(***************************************************************************)
(* Model of the LLM-orchestration layer of backend_professorIA:            *)
(*   llm_client.py       provider resolution, generate_structured, metrics *)
(*   grouping_engine.py  result cache, build_groups, build_class_insights  *)
(*   analysis_engine.py  analyze_text and its fallback                     *)
(* Requests run on threads of the web server's pool (the endpoints of      *)
(* main.py are plain "def" handlers), so the calls of different processes  *)
(* interleave at every access to the module-level state.                   *)
(***************************************************************************)
EXTENDS Integers, Sequences, FiniteSets, TLC

(* ------------------------------ bounds -------------------------------- *)
MaxTicks == 2          \* clock advances in one behaviour
MaxEnvChanges == 1     \* changes of the credential environment
MaxRetries == 1        \* largest max_retries of a direct generate call
MaxTextLen == 2        \* longest submission text
MaxBatchLen == 3       \* longest record list of a request handled alone
MaxExcess == 2         \* how far a value of the model leaves its permitted range
MaxPieces == 4         \* pieces a submission text is put together from

\* The requests of a behaviour; each is handled once, on its own thread.
Procs == {1, 2}

(* ------------------------- program constants -------------------------- *)
CACHE_TTL_SECONDS == 120
DefaultMaxRetries == 2
GroupsMaxRetries == 2
ClassMaxRetries == 2

(* Amounts by which the clock is sampled: time.time() is continuous, the   *)
(* model lets it jump by one of these steps.                               *)
TickSteps == {1, 119, 120}

(* ------------------------------ inputs -------------------------------- *)
Chars == {" ", "a"}

IsSpace(c) == c \in {" ", "\n", "\t"}

Texts == UNION {[1..n -> Chars] : n \in 0..MaxTextLen}

\* Submission texts with the marks the exercise detection looks for: a
\* numbered item "1." or "1)", the word "q", a question mark, a line break,
\* a space, and "W", which stands for a run of 31 letters.
RECURSIVE Flat(_)
Flat(s) == IF s = << >> THEN << >> ELSE Head(s) \o Flat(Tail(s))

PieceTexts ==
    LET Pieces == {<<"1", ".">>, <<"1", ")">>, <<"q">>, <<"?">>, <<"\n">>, <<" ">>, <<"W">>}
    IN {Flat(s) : s \in UNION {[1..n -> Pieces] : n \in 0..MaxPieces}}

RecA1 == [id |-> "a1", studentName |-> "Ana", timestamp |-> 1,
          mainError |-> "e1", errorPercentage |-> 20]
RecA2 == [id |-> "a2", studentName |-> "Ana", timestamp |-> 2,
          mainError |-> "e2", errorPercentage |-> 70]
RecB1 == [id |-> "b1", studentName |-> "Bia", timestamp |-> 1,
          mainError |-> "e1", errorPercentage |-> 45]

Batches == {<< >>, <<RecA1, RecB1, RecA2>>}

\* Records for the calls of one request alone: two entities, records of one
\* entity with different and with equal timestamps, and error percentages on
\* both sides of the thresholds of the heuristic grouping.
Rec(id, name, ts, err, pct) ==
    [id |-> id, studentName |-> name, timestamp |-> ts,
     mainError |-> err, errorPercentage |-> pct]

Pool ==
    {Rec("c1", "Caio", 1, "e1", 29), Rec("c2", "Caio", 2, "e2", 60),
     Rec("c3", "Caio", 2, "e3", 30),
     Rec("d1", "Duda", 2, "e1", 30), Rec("d2", "Duda", 1, "e3", 59)}

\* The record lists of every order and length up to MaxBatchLen.
WideBatches == UNION {[1..n -> Pool] : n \in 0..MaxBatchLen}

\* Record lists for build_class_insights: the lists above with, in addition,
\* a record that has no errorPercentage and one whose errorPercentage is a
\* text that float() rejects (a field holds values of one kind, so the text
\* is kept under errorPercentageText); and lists of 40 and more records with
\* 8 and more different errors.
ClassBatches ==
    LET D == <<"0", "1", "2", "3", "4", "5", "6", "7", "8", "9">>
        Num(i) == D[(i \div 10) + 1] \o D[(i % 10) + 1]
        missing == [id |-> "f1", studentName |-> "Fabio", timestamp |-> 1,
                    mainError |-> "e2"]
        text == [id |-> "g1", studentName |-> "Gil", timestamp |-> 1,
                 mainError |-> "e1", errorPercentageText |-> "n/a"]
        Long(n, m) == [i \in 1..n |->
                         Rec("L" \o Num(i), "S" \o Num(i), 1,
                             "m" \o Num((i - 1) % m), (37 * i) % 101)]
    IN UNION {[1..n -> Pool \cup {missing, text}] : n \in 0..MaxBatchLen}
       \cup {Long(40 + k, 8 + k) : k \in 0..MaxExcess}

ClassNames == {"5A"}

(* What json.loads returned for the candidate text of a response.  Only    *)
(* what the callers look at is kept: whether the object has the keys the   *)
(* caller requires, whether its fields have the types the caller's         *)
(* sanitization can handle, and which of two contents it carries.          *)
Shapes == {"ok", "nokey", "badtype"}

Data ==
    {[shape |-> "ok", v |-> 1], [shape |-> "ok", v |-> 2],
     [shape |-> "nokey", v |-> 0], [shape |-> "badtype", v |-> 0]}

NoData == [shape |-> "none", v |-> 0]

(* A provider's reply to one attempt: an exception (network error,         *)
(* timeout, non-2xx status), or a text.  A text is a fenced block, a bare   *)
(* {...} text or prose; json.loads accepts the candidate or not.           *)
RawTexts == [kind : {"fenced", "bare", "prose"}, parses : BOOLEAN, data : Data]

(* The value a payload carries under "errorPercentage": an integer, a      *)
(* string that int() parses, a float (n counts tenths), a string that       *)
(* int() rejects, null, or no such key.                                     *)
PctValues ==
    [t : {"int", "numstr"},
     n : (0 - MaxExcess .. 1) \cup {50} \cup (99 .. 100 + MaxExcess)]
    \cup [t : {"float"}, n : {0 - 10 * MaxExcess - 5, -5, 455, 1000 + 10 * MaxExcess + 5}]
    \cup [t : {"text", "null", "missing"}, n : {0}]

\* Payloads of the analysis schema that differ in their errorPercentage.
PctData == [shape : {"ok"}, v : {1}, pct : PctValues]

\* Payloads of the analysis schema and of the legacy schema that differ in
\* the characters of their text (mainError, the first micro-exercise); the
\* name marker of the feedback template is the three symbols "{",
\* "student_name", "}".
TxtData ==
    [shape : {"ok"}, v : {1},
     txt : {<<"{", "student_name">>, <<"{", "student_name", "}">>,
            <<"{", "{", "student_name", "}", "}">>}]

WideRawTexts ==
    [kind : {"fenced", "prose"}, parses : {TRUE}, data : PctData \cup TxtData]

\* Payloads of the grouping schema of any size: every list and every text of
\* the payload is longer, by over, than what build_groups keeps of it, and
\* the level of its groups is one of the three levels or another word.
\* Student objects of a grouping payload: as the system prompt lays them
\* out (analysisId, studentName, rationale), and with the reference under
\* the key id as well or instead.
Students ==
    {[analysisId |-> "a1", studentName |-> "Ana", rationale |-> "r1"],
     [id |-> "a1", studentName |-> "Ana", rationale |-> "r1"],
     [id |-> "a1", analysisId |-> "a1", studentName |-> "Ana", rationale |-> "r1"]}

SizedData ==
    [shape : {"ok"}, v : {1}, over : {0 - MaxExcess, 0, MaxExcess},
     level : {"low", "expert"}]

\* Payloads whose errorPercentage is 0, 25, 50 or 100.
ScoreRawTexts ==
    [kind : {"fenced"}, parses : {TRUE},
     data : [shape : {"ok"}, v : {1}, pct : [t : {"int"}, n : {0, 25, 50, 100}]]]

(* ------------------------- llm_client.py ------------------------------ *)
\* _extract_json: the candidate is the fenced block, else the whole trimmed
\* text when it is {...}; None when there is no candidate or it does not parse.
_extract_json(raw) ==
    IF raw.kind = "prose" THEN NoData
    ELSE IF raw.parses THEN raw.data ELSE NoData

\* A loop test that admits one attempt too many.
LoopContinuesOffByOne(attempt, max_retries) == attempt <= max_retries + 1

\* while attempt <= max_retries
LoopContinues(attempt, max_retries) == attempt <= max_retries

\* A resolution that prefers the second provider.
ResolveSecondFirst(groq_key, gem_key, genai_ok) ==
    IF gem_key /\ genai_ok THEN "gemini"
    ELSE IF groq_key THEN "groq"
    ELSE "None"

\* _init_client, lines 92-112: the provider the environment resolves to.
Resolve(groq_key, gem_key, genai_ok) ==
    IF groq_key THEN "groq"
    ELSE IF gem_key /\ genai_ok THEN "gemini"
    ELSE "None"

GenDisabled == [success |-> FALSE, data |-> NoData, llm_enabled |-> FALSE]
GenFailed == [success |-> FALSE, data |-> NoData, llm_enabled |-> TRUE]
GenOk(d) == [success |-> TRUE, data |-> d, llm_enabled |-> TRUE]
NoRes == [success |-> FALSE, data |-> NoData, llm_enabled |-> FALSE]

(* ------------------------ analysis_engine.py -------------------------- *)
RECURSIVE LStrip(_)
LStrip(t) == IF t # << >> /\ IsSpace(Head(t)) THEN LStrip(Tail(t)) ELSE t

RECURSIVE RStrip(_)
RStrip(t) ==
    IF t # << >> /\ IsSpace(t[Len(t)]) THEN RStrip(SubSeq(t, 1, Len(t) - 1))
    ELSE t

\* str.strip()
Strip(t) == RStrip(LStrip(t))

\* A test that takes only the empty text for blank.
IsBlankOnlyEmpty(t) == t = << >>

\* if not detected_text.strip()
IsBlank(t) == Strip(t) = << >>

\* len(detected_text.split()): the number of maximal runs of non-space
RECURSIVE WordCount(_)
WordCount(t) ==
    IF t = << >> THEN 0
    ELSE IF IsSpace(Head(t)) THEN WordCount(Tail(t))
    ELSE IF Len(t) = 1 \/ IsSpace(t[2]) THEN 1 + WordCount(Tail(t))
    ELSE WordCount(Tail(t))

\* floor(log2(m)) for m >= 1
RECURSIVE FloorLog2(_)
FloorLog2(m) == IF m < 2 THEN 0 ELSE 1 + FloorLog2(m \div 2)

Pow2(n) == 2 ^ n

FixScale == 2 ^ 14

\* The first n binary digits of the fraction of log2(y / FixScale), for
\* FixScale <= y < 2 * FixScale, as an integer in 0 .. 2^n - 1.
RECURSIVE FracBits(_, _, _)
FracBits(y, n, acc) ==
    IF n = 0 THEN acc
    ELSE LET sq == (y * y) \div FixScale
         IN IF sq >= 2 * FixScale
            THEN FracBits(sq \div 2, n - 1, 2 * acc + 1)
            ELSE FracBits(sq, n - 1, 2 * acc)

\* int(math.log2(m) * 12) for 1 <= m <= 101
Log2Times12(m) ==
    LET e == FloorLog2(m)
        y == (m * FixScale) \div Pow2(e)
    IN 12 * e + (12 * FracBits(y, 10, 0)) \div 1024

Min(a, b) == IF a < b THEN a ELSE b

Max(a, b) == IF a > b THEN a ELSE b

\* fallback_analysis: no "llm" key, ai_analysis None
fallback_analysis(detected_text, subject) ==
    LET length_factor == Min(100, Max(10, WordCount(detected_text)))
    IN [kind |-> "analysis",
        mainError |-> "Pending advanced analysis (LLM disabled)",
        errorPercentage |-> Min(85, Max(15, Log2Times12(length_factor + 1))),
        concepts |-> <<subject>>,
        suggestions |-> <<"Enable GEMINI_API_KEY to obtain richer insights">>,
        reasoning |-> "Fallback heuristic",
        ai_analysis |-> NoData]

\* analyze_text, lines 75-81: the result for an empty submission
EmptySubmission ==
    [kind |-> "analysis",
     mainError |-> "Empty or unreadable submission",
     errorPercentage |-> 100,
     concepts |-> << >>,
     suggestions |-> <<"Send a clearer image", "Check lighting and focus">>,
     reasoning |-> "No text recognized"]

\* The fields of the primary payload, as the model wrote them.
ModelMainError(d) ==
    IF d.shape = "nokey" THEN "Unspecified" ELSE IF d.v = 1 THEN "m1" ELSE "m2"

\* line 93: data.get("errorPercentage", 50), as the payload carries it
RawPct(d) ==
    IF "pct" \in DOMAIN d THEN d.pct
    ELSE IF d.shape = "nokey" THEN [t |-> "missing", n |-> 0]
    ELSE IF d.v = 1 THEN [t |-> "int", n |-> 30] ELSE [t |-> "int", n |-> 130]

\* lines 94-97: int(error_pct), 50 when int() raises; int() truncates a
\* float toward zero; a missing key has the default 50
IntOf(x) ==
    IF x.t \in {"int", "numstr"} THEN x.n
    ELSE IF x.t = "float"
    THEN IF x.n >= 0 THEN x.n \div 10 ELSE 0 - ((0 - x.n) \div 10)
    ELSE 50

ModelErrorPct(d) == IntOf(RawPct(d))

\* A clamp that forgets the lower limit.
ClampUpperOnly(n) == Min(100, n)

\* line 98: max(0, min(100, error_pct))
Clamp(n) == Max(0, Min(100, n))

\* _detect_total_exercises, lines 45-67: what the five detectors count in t.
DetectorCounts(t) ==
    LET n == Len(t)
        IsDigit(c) == c \in {"0", "1", "2", "3", "4", "5", "6", "7", "8", "9"}
        IsWord(c) == IsDigit(c) \/ c \in {"a", "q", "Q", "W", "_"}
        InLine(c) == c \in {" ", "\t"}
        Width(c) == IF c = "W" THEN 31 ELSE 1
        \* the first index from i on whose character is not of the class
        Run(i, In(_)) ==
            CHOOSE j \in i..(n + 1) :
                /\ j = n + 1 \/ ~In(t[j])
                /\ \A m \in i..(j - 1) : In(t[m])
        Newlines(a, b) == Cardinality({m \in a..b : t[m] = "\n"})
        \* re.match(r"^\s*\d+\s*[\.|\)]", L) for the line that starts at i
        Numbered(i) ==
            LET j == Run(i, InLine)
                k == Run(j, IsDigit)
                m == Run(k, InLine)
            IN k > j /\ m <= n /\ t[m] \in {".", "|", ")"}
        \* \b(?:question|...|q)\b, case-insensitive
        QWord(i) ==
            /\ t[i] \in {"q", "Q"}
            /\ i = 1 \/ ~IsWord(t[i - 1])
            /\ i = n \/ ~IsWord(t[i + 1])
        \* \b\d+\)
        ParenNum(i) ==
            /\ IsDigit(t[i])
            /\ i = 1 \/ ~IsWord(t[i - 1])
            /\ LET k == Run(i, IsDigit) IN k <= n /\ t[k] = ")"
        \* re.split(r"\n\s*\n", text): a run of whitespace with two line
        \* breaks separates two paragraphs
        ParaStart(i) ==
            /\ ~IsSpace(t[i])
            /\ LET a == CHOOSE a \in 1..i :
                            /\ \A m \in a..(i - 1) : IsSpace(t[m])
                            /\ a = 1 \/ ~IsSpace(t[a - 1])
               IN i = 1 \/ (a < i /\ (a = 1 \/ Newlines(a, i - 1) >= 2))
        ParaEnd(e) ==
            /\ ~IsSpace(t[e])
            /\ LET b == Run(e + 1, IsSpace)
               IN IF b = e + 1 THEN e = n
                  ELSE b = n + 1 \/ Newlines(e + 1, b - 1) >= 2
        \* len(p.strip()) > 30
        Significant(i) ==
            LET e == CHOOSE e \in i..n :
                        ParaEnd(e) /\ \A m \in i..(e - 1) : ~ParaEnd(m)
            IN Cardinality(UNION {{<<m, w>> : w \in 1..Width(t[m])} : m \in i..e}) > 30
    IN <<Cardinality({i \in 1..n : (i = 1 \/ t[i - 1] = "\n") /\ Numbered(i)}),
         Cardinality({i \in 1..n : QWord(i)}),
         Cardinality({i \in 1..n : ParenNum(i)}),
         Cardinality({i \in 1..n : t[i] = "?"}),
         Cardinality({i \in 1..n : ParaStart(i) /\ Significant(i)})>>

\* A chain in which the greatest count wins.
GreatestReaching(counts) ==
    LET big == {counts[i] : i \in {k \in 1..Len(counts) : counts[k] >= 2}}
    IN IF big = {} THEN 1 ELSE CHOOSE c \in big : \A x \in big : x <= c

\* lines 47-71: the count of the first detector that reaches 2, else 1
RECURSIVE FirstReaching(_)
FirstReaching(counts) ==
    IF counts = << >> THEN 1
    ELSE IF Head(counts) >= 2 THEN Head(counts)
    ELSE FirstReaching(Tail(counts))

_detect_total_exercises(detected_text) ==
    IF IsBlank(detected_text) THEN 1
    ELSE FirstReaching(DetectorCounts(detected_text))

\* A score that rounds down.
ScoreRoundsDown(error_pct, total_ex) ==
    LET Digit(k) == <<"0", "1", "2", "3", "4", "5", "6", "7", "8", "9">>[k + 1]
        Decimal(k) == IF k < 10 THEN <<Digit(k)>>
                      ELSE <<Digit(k \div 10), Digit(k % 10)>>
        correct == Max(0, Min(total_ex, ((100 - error_pct) * total_ex) \div 100))
    IN [correct |-> correct, total |-> total_ex,
        label |-> Decimal(correct) \o <<"/">> \o Decimal(total_ex)]

\* lines 137-142.  round() takes the nearest integer and, of two equally
\* near, the even one; the product of the floats is the exact one at every
\* tie as long as total_ex < 45.  The label is the decimal text of numbers
\* below 100.
Score(error_pct, total_ex) ==
    LET Digit(k) == <<"0", "1", "2", "3", "4", "5", "6", "7", "8", "9">>[k + 1]
        Decimal(k) == IF k < 10 THEN <<Digit(k)>>
                      ELSE <<Digit(k \div 10), Digit(k % 10)>>
        num == (100 - error_pct) * total_ex
        q == num \div 100
        r == num % 100
        rounded == IF 2 * r < 100 THEN q
                   ELSE IF 2 * r > 100 THEN q + 1
                   ELSE IF q % 2 = 0 THEN q ELSE q + 1
        correct == Max(0, Min(total_ex, rounded))
    IN [correct |-> correct, total |-> total_ex,
        label |-> Decimal(correct) \o <<"/">> \o Decimal(total_ex)]

\* lines 144-178: the feedback template.  The fixed parts of the template
\* are one symbol each; the texts of the model are the symbols the payload
\* carries.  The micro-exercise is read from the legacy payload; without
\* one the lookup raises and there is none.
StudentFeedback(d, legacy) ==
    LET TextOf(x, default) == IF "txt" \in DOMAIN x THEN x.txt ELSE <<default>>
        main_error == TextOf(d, ModelMainError(d))
        has_micro == legacy.shape = "ok"
        guidance == IF d.shape # "nokey" THEN <<"s">>
                    ELSE IF has_micro THEN <<"follow the steps above">>
                    ELSE <<"review the related concept">>
    IN <<"Hi ", "{", "student_name", "}",
         "! I reviewed your work and noticed you struggled with: \"">>
       \o main_error \o <<"\". Here's a short tip: ">> \o guidance
       \o (IF has_micro
           THEN <<". Try this short practice: ">> \o TextOf(legacy, "x")
           ELSE <<". Keep practicing and try similar exercises to improve.">>)

\* A variant in which the result degrades to the heuristic texts when there
\* is no legacy payload.
AnalysisResultLegacyFatal(d, legacy, detected_text) ==
    [kind |-> "analysis",
     mainError |-> IF legacy = NoData
                   THEN "Pending advanced analysis (LLM disabled)"
                   ELSE ModelMainError(d),
     errorPercentage |-> Max(0, Min(100, ModelErrorPct(d))),
     concepts |-> IF d.shape = "nokey" \/ legacy = NoData THEN << >> ELSE <<"c">>,
     suggestions |-> IF d.shape = "nokey" THEN << >> ELSE <<"s">>,
     reasoning |-> IF legacy = NoData THEN "Fallback heuristic"
                   ELSE IF d.shape = "nokey" THEN "" ELSE "r",
     ai_analysis |-> d,
     ai_structured |-> legacy,
     score |-> Score(Clamp(ModelErrorPct(d)), _detect_total_exercises(detected_text)),
     studentFeedback |-> StudentFeedback(d, legacy)]

\* analyze_text, lines 181-191: the model-backed result
AnalysisResult(d, legacy, detected_text) ==
    [kind |-> "analysis",
     mainError |-> ModelMainError(d),
     errorPercentage |-> Clamp(ModelErrorPct(d)),
     concepts |-> IF d.shape = "nokey" THEN << >> ELSE <<"c">>,
     suggestions |-> IF d.shape = "nokey" THEN << >> ELSE <<"s">>,
     reasoning |-> IF d.shape = "nokey" THEN "" ELSE "r",
     ai_analysis |-> d,
     ai_structured |-> legacy,
     score |-> Score(Clamp(ModelErrorPct(d)), _detect_total_exercises(detected_text)),
     studentFeedback |-> StudentFeedback(d, legacy)]

(* ------------------------ grouping_engine.py -------------------------- *)
\* A variant that keeps the first record seen of every name.
GroupStepKeepsFirst(acc, a) ==
    IF \E j \in 1..Len(acc) : acc[j].studentName = a.studentName
    THEN acc
    ELSE Append(acc, a)

\* One step of the loop of _group_analyses_by_student: the dict keeps the
\* first-seen order of the names and replaces a representative only by a
\* record with a greater timestamp.
GroupStep(acc, a) ==
    IF \E j \in 1..Len(acc) : acc[j].studentName = a.studentName
    THEN [j \in 1..Len(acc) |->
            IF acc[j].studentName = a.studentName /\ a.timestamp > acc[j].timestamp
            THEN a ELSE acc[j]]
    ELSE Append(acc, a)

RECURSIVE GroupFrom(_, _, _)
GroupFrom(analyses, i, acc) ==
    IF i > Len(analyses) THEN acc
    ELSE GroupFrom(analyses, i + 1, GroupStep(acc, analyses[i]))

\* list(_group_analyses_by_student(analyses).values())
_group_analyses_by_student(analyses) == GroupFrom(analyses, 1, << >>)

\* The basis string of the cache keys: id|mainError|errorPercentage per record.
Basis(analyses) ==
    [i \in 1..Len(analyses) |->
        <<analyses[i].id, analyses[i].mainError,
          IF "errorPercentage" \in DOMAIN analyses[i] THEN analyses[i].errorPercentage
          ELSE IF "errorPercentageText" \in DOMAIN analyses[i]
          THEN analyses[i].errorPercentageText
          ELSE "None">>]

\* _cache_key: the digest is taken as injective on the basis string.
_cache_key(analyses) == <<"groups", Basis(analyses)>>

_cache_key_for_class(analyses, class_name) == <<"class", class_name, Basis(analyses)>>

\* An expiry test that already drops an entry of age TTL.
ExpiredAtTTL(t, ts) == t - ts >= CACHE_TTL_SECONDS

\* _get_cache, line 49: the entry is expired
Expired(t, ts) == t - ts > CACHE_TTL_SECONDS

\* A read path that ignores the force flag.
ReadsCacheAlways(force) == TRUE

\* if not force: cached = _get_cache(key)
ReadsCache(force) == ~force

\* Thresholds that belong to the bucket below them.
BucketInclusive(pct) ==
    IF pct <= 30 THEN "high" ELSE IF pct <= 60 THEN "medium" ELSE "low"

\* fallback_groups, lines 60-67
Bucket(pct) == IF pct < 30 THEN "high" ELSE IF pct < 60 THEN "medium" ELSE "low"

GroupSlug(level) ==
    IF level = "high" THEN "advanced"
    ELSE IF level = "medium" THEN "intermediate" ELSE "needs-support"

FallbackGroup(level, items) ==
    [id |-> GroupSlug(level), level |-> level,
     commonErrors |-> {items[i].mainError : i \in 1..Len(items)},
     students |-> [i \in 1..Len(items) |->
                     [analysisId |-> items[i].id,
                      studentName |-> items[i].studentName,
                      rationale |-> "heuristic"]]]

\* A bucket that receives every record.
InBucketAll(level, unique) == unique

InBucket(level, unique) ==
    LET Test(a) == Bucket(a.errorPercentage) = level
    IN SelectSeq(unique, Test)

RECURSIVE EmitGroups(_, _)
EmitGroups(levels, unique) ==
    IF levels = << >> THEN << >>
    ELSE LET items == InBucket(Head(levels), unique)
             rest == EmitGroups(Tail(levels), unique)
         IN IF items = << >> THEN rest
            ELSE <<FallbackGroup(Head(levels), items)>> \o rest

\* fallback_groups: {"groups": ..., "llm": False, "cached": False}
fallback_groups(analyses) ==
    [kind |-> "groups",
     groups |-> EmitGroups(<<"high", "medium", "low">>,
                           _group_analyses_by_student(analyses)),
     llm |-> FALSE, cached |-> FALSE]

\* build_groups, lines 133-137: one prompt line per record of unique_analyses
PromptLines(unique) ==
    [i \in 1..Min(120, Len(unique)) |->
        <<unique[i].id, unique[i].studentName, unique[i].errorPercentage,
          unique[i].mainError>>]

\* A slice that keeps everything.
CutNothing(len, n) == len

\* x[:n], for a text or list x of the given length: the length of the slice
Cut(len, n) == Min(n, len)

\* lines 147-169: the groups build_groups keeps of a well-typed model
\* payload.  The members are copied as the model listed them, up to 200 per
\* group; the second payload lists one student twice in its group.  The
\* level is the model's.  Texts and lists are kept up to their limits; of
\* them the group records the lengths (sizes), of its members the number.
ModelGroups(d) ==
    LET sized == "over" \in DOMAIN d
        Len0(limit) == IF sized THEN limit + d.over ELSE 1
        \* s.get('id', '') of a student object of the payload
        IdRead(s) == IF "id" \in DOMAIN s THEN s.id ELSE ""
        \* "analysisId": str(s.get('id', '')), of a student object s that
        \* the payload spells out
        member == IF "student" \in DOMAIN d
                  THEN [analysisId |-> IdRead(d.student),
                        studentName |-> d.student.studentName,
                        rationale |-> d.student.rationale]
                  ELSE [analysisId |-> "", studentName |-> "model",
                        rationale |-> IF d.v = 1 THEN "r1" ELSE "r2"]
        listed == IF sized THEN Len0(200) ELSE d.v
        group ==
            [id |-> "m",
             level |-> IF "level" \in DOMAIN d THEN d.level ELSE "medium",
             commonErrors |-> {},
             students |-> [i \in 1..Cut(listed, 200) |-> member],
             sizes |-> [id |-> Cut(Len0(40), 40), name |-> Cut(Len0(80), 80),
                        color |-> Cut(Len0(80), 80),
                        description |-> Cut(Len0(300), 300),
                        criteria |-> Cut(Len0(200), 200),
                        commonErrors |-> Cut(Len0(10), 10),
                        suggestions |-> Cut(Len0(10), 10),
                        rationale |-> Cut(Len0(160), 160)]]
    IN [i \in 1..Cut(Len0(10), 10) |-> group]

\* payload = {"groups": norm_groups, "llm": True, "cached": False}
GroupsPayload(d) ==
    [kind |-> "groups", groups |-> ModelGroups(d), llm |-> TRUE, cached |-> FALSE]

\* build_groups with no analyses: {"groups": [], "llm": llm_available(), ...}
EmptyGroups(avail) ==
    [kind |-> "groups", groups |-> << >>, llm |-> avail, cached |-> FALSE]

\* lines 209-216: the sum of float(data.get("errorPercentage") or 0), which
\* is 0 for a record without the key and for a text float() rejects
RECURSIVE SumPct(_)
SumPct(analyses) ==
    IF analyses = << >> THEN 0
    ELSE (IF "errorPercentage" \in DOMAIN Head(analyses)
          THEN Head(analyses).errorPercentage ELSE 0)
         + SumPct(Tail(analyses))

\* round(total / count, 2), in hundredths
AverageError(analyses) ==
    IF analyses = << >> THEN 0
    ELSE (2 * 100 * SumPct(analyses) + Len(analyses)) \div (2 * Len(analyses))

\* A slice that keeps the whole list.
TakeAll(s, n) == s

\* s[:n]
Take(s, n) == SubSeq(s, 1, Min(n, Len(s)))

\* The mainError values in first-seen order, without repetition.
RECURSIVE Distinct(_, _)
Distinct(errs, acc) ==
    IF errs = << >> THEN acc
    ELSE IF \E i \in 1..Len(acc) : acc[i] = Head(errs)
         THEN Distinct(Tail(errs), acc)
         ELSE Distinct(Tail(errs), Append(acc, Head(errs)))

Count(analyses, e) == Cardinality({i \in 1..Len(analyses) : analyses[i].mainError = e})

\* sorted(main_errors.items(), key=lambda x: -x[1]): a stable sort, the
\* first of the most frequent errors comes first.
RECURSIVE Ranked(_, _)
Ranked(analyses, errs) ==
    IF errs = << >> THEN << >>
    ELSE LET best == CHOOSE i \in 1..Len(errs) :
                        /\ \A j \in 1..Len(errs) :
                             Count(analyses, errs[j]) <= Count(analyses, errs[i])
                        /\ \A j \in 1..(i - 1) :
                             Count(analyses, errs[j]) < Count(analyses, errs[i])
             rest == [j \in 1..(Len(errs) - 1) |->
                        IF j < best THEN errs[j] ELSE errs[j + 1]]
         IN <<errs[best]>> \o Ranked(analyses, rest)

\* build_class_insights, lines 203-234: the heuristic summary
ClassHeuristic(analyses, class_name) ==
    [kind |-> "class", class_name |-> class_name,
     student_count |-> Len(analyses),
     average_error |-> AverageError(analyses),
     commonErrors |-> Take(Ranked(analyses,
                         Distinct([i \in 1..Len(analyses) |-> analyses[i].mainError],
                                  << >>)), 8),
     suggestions |-> <<"Review common mistakes in class; use small-group exercises">>,
     detailed |-> [i \in 1..Min(40, Len(analyses)) |->
                     [studentName |-> analyses[i].studentName,
                      analysisId |-> analyses[i].id,
                      errorPercentage |->
                          IF "errorPercentage" \in DOMAIN analyses[i]
                          THEN analyses[i].errorPercentage
                          ELSE IF "errorPercentageText" \in DOMAIN analyses[i]
                          THEN analyses[i].errorPercentageText
                          ELSE "None",
                      shortRationale |-> analyses[i].mainError]],
     llm |-> FALSE, cached |-> FALSE]

\* line 246: the structure returned when the generation call failed
ClassFailed(analyses, class_name) ==
    [kind |-> "class", class_name |-> class_name,
     student_count |-> Len(analyses),
     average_error |-> 0,
     commonErrors |-> << >>, suggestions |-> << >>, detailed |-> << >>,
     llm |-> TRUE, cached |-> FALSE]

\* lines 250-261: the model's object with class_name, student_count and
\* average_error defaulted and llm, cached set; the other keys are the model's.
ClassPayload(d, analyses, class_name) ==
    IF d.shape = "nokey"
    THEN [kind |-> "class", class_name |-> class_name,
          student_count |-> Len(analyses), average_error |-> 0,
          llm |-> TRUE, cached |-> FALSE]
    ELSE [kind |-> "class", class_name |-> class_name,
          student_count |-> Len(analyses), average_error |-> 100 * d.v,
          commonErrors |-> <<"model">>,
          suggestions |-> <<IF d.v = 1 THEN "s1" ELSE "s2">>,
          detailed |-> << >>,
          llm |-> TRUE, cached |-> FALSE]

\* A structure for the empty record list that carries the fixed suggestion
\* of the heuristic summary.
ClassEmptyWithAdvice(class_name, avail) ==
    [kind |-> "class", class_name |-> class_name,
     student_count |-> 0, average_error |-> 0,
     commonErrors |-> << >>,
     suggestions |-> <<"Review common mistakes in class; use small-group exercises">>,
     detailed |-> << >>,
     llm |-> avail, cached |-> FALSE]

\* line 192: the structure for an empty record list
ClassEmpty(class_name, avail) ==
    [kind |-> "class", class_name |-> class_name,
     student_count |-> 0, average_error |-> 0,
     commonErrors |-> << >>, suggestions |-> << >>, detailed |-> << >>,
     llm |-> avail, cached |-> FALSE]

(* ------------------------------- state -------------------------------- *)
VARIABLES
    env,            \* os.environ: which credentials are set now
    GROQ_API_KEY,   \* llm_client.GROQ_API_KEY, read once at import
    GEMINI_API_KEY, \* llm_client.GEMINI_API_KEY, read once at import
    genai_ok,       \* whether "import google.generativeai" succeeds
    _PROVIDER,      \* llm_client._PROVIDER: "groq", "gemini" or "None"
    _LLM_AVAILABLE, \* llm_client._LLM_AVAILABLE
    _METRICS,       \* llm_client._METRICS: requests, errors
    _CACHE,         \* grouping_engine._CACHE: key -> [data, ts]
    now,            \* time.time()
    ticks,          \* clock advances so far
    nenv,           \* environment changes so far
    firstObserved,  \* the provider selection the first call observed
    serial,         \* whether a request arrives only when no other is in flight
    _client,        \* db._client: "None" or "MongoClient"
    _students_col,  \* db._students_col: "None" or "students"
    _analyses_col,  \* db._analyses_col: "None" or "analyses"
    _client_lock,   \* db._client_lock: 0 when free, else the request holding it
    students,       \* the documents of the students collection in the database
    nclients,       \* MongoClient objects constructed so far
    procs           \* per request: position and locals of its handler

vars == <<env, GROQ_API_KEY, GEMINI_API_KEY, genai_ok, _PROVIDER, _LLM_AVAILABLE,
          _METRICS, _CACHE, now, ticks, nenv, firstObserved,
          serial, _client, _students_col, _analyses_col, _client_lock, students,
          nclients, procs>>

Db == <<_client, _students_col, _analyses_col, _client_lock, students, nclients>>

NoObj == [kind |-> "none"]

Raised == [kind |-> "raised"]

Idle ==
    [pc |-> "idle", op |-> "none", analyses |-> << >>, text |-> << >>,
     class_name |-> "", force |-> FALSE, max_retries |-> 0,
     ret |-> "none", gret |-> "none", choice |-> "None", attempt |-> 0,
     slept |-> 0, gres |-> NoRes, prim |-> NoData,
     lines |-> << >>, nreq |-> 0, nerr |-> 0, seen |-> -1, ngen |-> 0,
     student |-> NoObj,
     obs |-> "unset", payload |-> NoObj,
     result |-> NoObj, student_name |-> << >>, student_feedback |-> << >>]

Init ==
    /\ env \in [groq : BOOLEAN, gem : BOOLEAN]
    /\ GROQ_API_KEY \in BOOLEAN
    /\ GEMINI_API_KEY \in BOOLEAN
    \* a key captured at import was in the environment then
    /\ GROQ_API_KEY => env.groq
    /\ GEMINI_API_KEY => env.gem
    /\ genai_ok \in BOOLEAN
    /\ _PROVIDER = "None"
    /\ _LLM_AVAILABLE = FALSE
    /\ _METRICS = [requests |-> 0, errors |-> 0]
    /\ _CACHE = << >>
    /\ now = 0
    /\ ticks = 0
    /\ nenv = 0
    /\ firstObserved = "unset"
    /\ serial \in BOOLEAN
    /\ _client = "None"
    /\ _students_col = "None"
    /\ _analyses_col = "None"
    /\ _client_lock = 0
    \* a database that holds no student yet
    /\ students = {}
    /\ nclients = 0
    /\ procs = [p \in Procs |-> Idle]

\* The process was started with at most the first provider's credential in
\* its environment, and the environment is left alone.
InitFixed ==
    /\ Init
    /\ ~env.gem
    /\ ~genai_ok

\* Requests that overlap on the threads of the pool.
InitConcurrent == Init /\ serial = FALSE

\* One request after another.
InitSerial == Init /\ serial = TRUE

InitFixedConcurrent == InitFixed /\ serial = FALSE

InitFixedSerial == InitFixed /\ serial = TRUE

Gateway == <<env, GROQ_API_KEY, GEMINI_API_KEY, genai_ok, _PROVIDER, _LLM_AVAILABLE>>

Clock == <<now, ticks, nenv>>

Calls == <<firstObserved, serial>>

\* os.getenv("API_GROQ") or GROQ_API_KEY
GroqKey == env.groq \/ GROQ_API_KEY

\* os.getenv("GEMINI_API_KEY") or GEMINI_API_KEY
GemKey == env.gem \/ GEMINI_API_KEY

Goto(p, r) == procs' = [procs EXCEPT ![p] = r]

\* Call _init_client() and continue at label ret.
CallInit(r, ret) == [r EXCEPT !.pc = "init", !.ret = ret]

(* ------------------------- environment steps -------------------------- *)
\* The clock advances.  The cache looks only at differences between two
\* readings of the clock, so time is counted from the first write.
Tick ==
    /\ ticks < MaxTicks
    /\ _CACHE # << >>
    /\ \E d \in TickSteps : now' = now + d
    /\ ticks' = ticks + 1
    /\ UNCHANGED <<Db, Gateway, _METRICS, _CACHE, nenv, Calls, procs>>

\* A credential is set in, or removed from, the process environment.
EnvChange ==
    /\ nenv < MaxEnvChanges
    /\ \E e \in [groq : BOOLEAN, gem : BOOLEAN] : e # env /\ env' = e
    /\ nenv' = nenv + 1
    /\ UNCHANGED <<Db, GROQ_API_KEY, GEMINI_API_KEY, genai_ok, _PROVIDER, _LLM_AVAILABLE,
                   _METRICS, _CACHE, now, ticks, Calls, procs>>

(* --------------------------- _init_client ----------------------------- *)
\* lines 89-100: return when a provider is set, else read the environment
InitCheck(p) ==
    /\ procs[p].pc = "init"
    /\ IF _PROVIDER # "None"
       THEN Goto(p, [procs[p] EXCEPT !.pc = procs[p].ret])
       ELSE Goto(p, [procs[p] EXCEPT !.pc = "init_provider",
                                     !.choice = Resolve(GroqKey, GemKey, genai_ok)])
    /\ UNCHANGED <<Db, Gateway, Clock, _METRICS, _CACHE, Calls>>

\* lines 94, 104, 111: _PROVIDER = ...
InitSetProvider(p) ==
    /\ procs[p].pc = "init_provider"
    /\ _PROVIDER' = procs[p].choice
    /\ Goto(p, [procs[p] EXCEPT !.pc = "init_available"])
    /\ UNCHANGED <<Db, env, GROQ_API_KEY, GEMINI_API_KEY, genai_ok, _LLM_AVAILABLE,
                   Clock, _METRICS, _CACHE, Calls>>

\* lines 95, 105, 112: _LLM_AVAILABLE = ...
InitSetAvailable(p) ==
    /\ procs[p].pc = "init_available"
    /\ _LLM_AVAILABLE' = (procs[p].choice # "None")
    /\ Goto(p, [procs[p] EXCEPT !.pc = procs[p].ret])
    /\ UNCHANGED <<Db, env, GROQ_API_KEY, GEMINI_API_KEY, genai_ok, _PROVIDER,
                   Clock, _METRICS, _CACHE, Calls>>

(* ------------------------ generate_structured ------------------------- *)
\* What the call observes of the provider selection: the provider of its
\* first look after _init_client.
Observed == IF _LLM_AVAILABLE /\ _PROVIDER # "None" THEN _PROVIDER ELSE "None"

\* line 218, after _init_client: disabled result, or enter the loop
GenCheck(p) ==
    /\ procs[p].pc = "gen_check"
    /\ IF ~_LLM_AVAILABLE \/ _PROVIDER = "None"
       THEN Goto(p, [procs[p] EXCEPT !.pc = procs[p].gret, !.gres = GenDisabled,
                                     !.obs = Observed])
       ELSE Goto(p, [procs[p] EXCEPT !.pc = "gen_loop", !.attempt = 0, !.slept = 0,
                                     !.obs = Observed])
    /\ firstObserved' = IF firstObserved = "unset" THEN Observed ELSE firstObserved
    /\ UNCHANGED <<Db, Gateway, Clock, _METRICS, _CACHE, serial>>

\* _METRICS[...] += 1 reads the counter, adds one and writes the sum, with no
\* lock held.  The thread of p has read the counter of its next increment
\* (requests at the top of an attempt, errors in the except clause) and
\* another thread runs before it writes; seen is the value it read, -1 when
\* no read is pending.  The write stores seen + 1.
GenPreempted(p) ==
    /\ procs[p].seen = -1
    /\ \/ /\ procs[p].pc = "gen_loop"
          /\ LoopContinues(procs[p].attempt, procs[p].max_retries)
          /\ Goto(p, [procs[p] EXCEPT !.seen = _METRICS.requests])
       \/ /\ procs[p].pc = "gen_call"
          /\ Goto(p, [procs[p] EXCEPT !.seen = _METRICS.errors])
    /\ UNCHANGED <<Db, Gateway, Clock, _METRICS, _CACHE, Calls>>

\* lines 229-232: the loop test, then _METRICS["requests"] += 1
GenLoop(p) ==
    /\ procs[p].pc = "gen_loop"
    /\ IF LoopContinues(procs[p].attempt, procs[p].max_retries)
       THEN /\ _METRICS' = [_METRICS EXCEPT !.requests =
                                 (IF procs[p].seen = -1 THEN @ ELSE procs[p].seen) + 1]
            /\ Goto(p, [procs[p] EXCEPT !.pc = "gen_call", !.nreq = @ + 1,
                                        !.seen = -1])
       ELSE /\ Goto(p, [procs[p] EXCEPT !.pc = procs[p].gret, !.gres = GenFailed])
            /\ UNCHANGED _METRICS
    /\ UNCHANGED <<Db, Gateway, Clock, _CACHE, Calls>>

\* Whether the provider call of this attempt can return a text at all:
\* _call_groq raises without a key, the Gemini branch raises without the package.
CanAnswer ==
    IF _PROVIDER = "groq" THEN GroqKey ELSE genai_ok

\* A backoff of half a second after every attempt.
NextAttemptFlat(r) ==
    [r EXCEPT !.pc = "gen_loop", !.attempt = @ + 1, !.slept = @ + 1]

\* lines 275-277: attempt += 1; time.sleep(0.5 * attempt), in half seconds
\* A loop that gives up without a pause after its last attempt.
NextAttemptNoFinalSleep(r) ==
    [r EXCEPT !.pc = "gen_loop", !.attempt = @ + 1,
              !.slept = IF r.attempt < r.max_retries THEN @ + (r.attempt + 1) ELSE @]

NextAttempt(r) ==
    [r EXCEPT !.pc = "gen_loop", !.attempt = @ + 1, !.slept = @ + (r.attempt + 1)]

\* lines 271-277: the attempt raised
GenException(p) ==
    /\ procs[p].pc = "gen_call"
    /\ _METRICS' = [_METRICS EXCEPT !.errors =
                            (IF procs[p].seen = -1 THEN @ ELSE procs[p].seen) + 1]
    /\ Goto(p, [NextAttempt(procs[p]) EXCEPT !.nerr = @ + 1, !.seen = -1])
    /\ UNCHANGED <<Db, Gateway, Clock, _CACHE, Calls>>

\* A variant in which a text without a JSON object ends the call.
AfterNoJsonFatal(r) == [r EXCEPT !.pc = r.gret, !.gres = GenFailed]

\* lines 268-277: data is None, so last_error is set and the attempt is over
AfterNoJson(r) == NextAttempt(r)

\* lines 267-277: the provider returned a text
GenAnswerOn(p, raws) ==
    /\ procs[p].pc = "gen_call"
    /\ procs[p].seen = -1
    /\ CanAnswer
    /\ \E raw \in raws :
         LET data == _extract_json(raw)
         IN IF data # NoData
            THEN Goto(p, [procs[p] EXCEPT !.pc = procs[p].gret, !.gres = GenOk(data)])
            ELSE Goto(p, AfterNoJson(procs[p]))
    /\ UNCHANGED <<Db, Gateway, Clock, _METRICS, _CACHE, Calls>>

GenAnswer(p) == GenAnswerOn(p, RawTexts)

\* the provider returned a text whose payload carries any errorPercentage
GenAnswerWide(p) == GenAnswerOn(p, WideRawTexts)

(* ------------------------------ callers ------------------------------- *)
\* A payload that was stored in, or read from, the cache is the very dict
\* object the cache entry holds: the result of such a call is a reference to
\* the entry's payload for as long as the entry is not replaced.
Entry(key) == [kind |-> "entry", key |-> key]

\* The structure a result stands for.
Deref(r) == IF r.kind = "entry" THEN _CACHE[r.key].data ELSE r

Begin(p, op) ==
    [procs[p] EXCEPT !.op = op]

Finished(p) == procs[p].pc \in {"done", "raised", "answered"}

\* The request of p arrives.
StartsCall(p) ==
    /\ procs[p].pc = "idle"
    /\ serial => \A q \in Procs \ {p} : procs[q].pc = "idle" \/ Finished(q)

\* On return the locals of the handler are gone; of the last generation
\* result only success and llm_enabled are remembered.
Forget(r) ==
    [r EXCEPT !.ret = "none", !.gret = "none", !.choice = "None", !.attempt = 0,
              !.slept = 0, !.max_retries = 0, !.prim = NoData, !.lines = << >>,
              !.gres = [r.gres EXCEPT !.data = NoData]]

\* Call generate_structured(..., max_retries = r) and continue at label gret;
\* ngen counts the generation calls of the request.
CallGenerate(r, max_retries, gret) ==
    [r EXCEPT !.pc = "init", !.ret = "gen_check", !.gret = gret,
              !.max_retries = max_retries, !.ngen = @ + 1]

\* llm_available(): _init_client(), then return _LLM_AVAILABLE
StartAvailable(p) ==
    /\ StartsCall(p)
    /\ Goto(p, CallInit(Begin(p, "is_available"), "avail_return"))
    /\ UNCHANGED <<Db, Gateway, Clock, _METRICS, _CACHE, firstObserved, serial>>

AvailReturn(p) ==
    /\ procs[p].pc = "avail_return"
    /\ Goto(p, [Forget(procs[p]) EXCEPT !.pc = "done", !.obs = Observed,
                  !.result = [kind |-> "bool", value |-> _LLM_AVAILABLE]])
    /\ firstObserved' = IF firstObserved = "unset" THEN Observed ELSE firstObserved
    /\ UNCHANGED <<Db, Gateway, Clock, _METRICS, _CACHE, serial>>

\* generate_structured called directly
StartGenerate(p) ==
    /\ StartsCall(p)
    /\ \E r \in 0..MaxRetries :
         Goto(p, CallGenerate(Begin(p, "generate"), r, "gen_return"))
    /\ UNCHANGED <<Db, Gateway, Clock, _METRICS, _CACHE, firstObserved, serial>>

GenReturn(p) ==
    /\ procs[p].pc = "gen_return"
    /\ Goto(p, [procs[p] EXCEPT !.pc = "done",
                  !.result = [kind |-> "generation", success |-> procs[p].gres.success,
                              data |-> procs[p].gres.data,
                              llm_enabled |-> procs[p].gres.llm_enabled]])
    /\ UNCHANGED <<Db, Gateway, Clock, _METRICS, _CACHE, Calls>>

(* --------------------------- analyze_text ----------------------------- *)
Subject == "math"

\* lines 74-83: the empty submission, else llm_available()
StartAnalyzeOn(p, texts) ==
    /\ StartsCall(p)
    /\ \E text \in texts :
         LET r == [Begin(p, "analyze") EXCEPT !.text = text]
         IN IF IsBlank(text)
            THEN Goto(p, [r EXCEPT !.pc = "done", !.result = EmptySubmission])
            ELSE Goto(p, CallInit(r, "an_available"))
    /\ UNCHANGED <<Db, Gateway, Clock, _METRICS, _CACHE, firstObserved, serial>>

StartAnalyze(p) == StartAnalyzeOn(p, Texts)

\* lines 82-87
AnAvailable(p) ==
    /\ procs[p].pc = "an_available"
    /\ IF ~_LLM_AVAILABLE
       THEN Goto(p, [Forget(procs[p]) EXCEPT !.pc = "done",
                       !.result = fallback_analysis(procs[p].text, Subject)])
       ELSE Goto(p, CallGenerate(procs[p], DefaultMaxRetries, "an_primary"))
    /\ UNCHANGED <<Db, Gateway, Clock, _METRICS, _CACHE, Calls>>

\* A variant that goes on to the legacy call whatever the primary call
\* returned.
PrimaryFailedNever(gres) == FALSE

\* line 88: if not result.get("success")
PrimaryFailed(gres) == ~gres.success

\* lines 88-128: the primary result, its sanitization, the legacy call
AnPrimary(p) ==
    /\ procs[p].pc = "an_primary"
    /\ IF PrimaryFailed(procs[p].gres)
       THEN Goto(p, [Forget(procs[p]) EXCEPT !.pc = "done",
                       !.result = fallback_analysis(procs[p].text, Subject)])
       ELSE IF procs[p].gres.data.shape = "badtype"
       THEN Goto(p, [Forget(procs[p]) EXCEPT !.pc = "raised", !.result = Raised])
       ELSE Goto(p, CallGenerate([procs[p] EXCEPT !.prim = procs[p].gres.data],
                                 DefaultMaxRetries, "an_legacy"))
    /\ UNCHANGED <<Db, Gateway, Clock, _METRICS, _CACHE, Calls>>

\* lines 129-191
AnLegacy(p) ==
    /\ procs[p].pc = "an_legacy"
    /\ Goto(p, [Forget(procs[p]) EXCEPT !.pc = "done",
                  !.result = AnalysisResult(procs[p].prim,
                                IF procs[p].gres.success THEN procs[p].gres.data
                                ELSE NoData,
                                procs[p].text)])
    /\ UNCHANGED <<Db, Gateway, Clock, _METRICS, _CACHE, Calls>>

\* A replacement that leaves the text as it is.
ReplaceNothing(s, old, new) == s

\* str.replace: every occurrence of old, found from the left, becomes new
RECURSIVE Replace(_, _, _)
Replace(s, old, new) ==
    IF Len(s) < Len(old) THEN s
    ELSE IF SubSeq(s, 1, Len(old)) = old
    THEN new \o Replace(SubSeq(s, Len(old) + 1, Len(s)), old, new)
    ELSE <<Head(s)>> \o Replace(Tail(s), old, new)

\* main.py, lines 434-441: the endpoint puts the display name of the student
\* into the template; a result without a template gives no feedback.
Substitute(p) ==
    /\ procs[p].op = "analyze" /\ procs[p].pc = "done"
    /\ \E student_name \in {<<"Ana">>, <<"}">>, <<"student_name">>,
                             <<"{", "student_name", "}">>} :
         Goto(p, [procs[p] EXCEPT
                    !.pc = "answered",
                    !.student_name = student_name,
                    !.student_feedback =
                        IF "studentFeedback" \in DOMAIN procs[p].result
                        THEN Replace(procs[p].result.studentFeedback,
                                     <<"{", "student_name", "}">>, student_name)
                        ELSE << >>])
    /\ UNCHANGED <<Db, Gateway, Clock, _METRICS, _CACHE, Calls>>

(* ------------------------------ the cache ----------------------------- *)
\* A store that updates an existing entry in place, field by field, and
\* leaves its llm flag as it was.
StoreInPlace(cache, key, data, t) ==
    [k \in (DOMAIN cache) \cup {key} |->
        IF k # key THEN cache[k]
        ELSE IF key \in DOMAIN cache /\ cache[key].data.kind = data.kind
        THEN [data |-> [data EXCEPT !.llm = cache[key].data.llm], ts |-> t]
        ELSE [data |-> data, ts |-> t]]

\* _store_cache: _CACHE[key] = {"data": data, "ts": time.time()}
_store_cache(cache, key, data, t) ==
    [k \in (DOMAIN cache) \cup {key} |->
        IF k = key THEN [data |-> data, ts |-> t] ELSE cache[k]]

\* A cache that serves model results only.
GetModelResultsOnly(cache, key, t) ==
    IF key \notin DOMAIN cache THEN NoObj
    ELSE IF Expired(t, cache[key].ts) \/ ~cache[key].data.llm THEN NoObj
    ELSE cache[key].data

\* _get_cache: the payload of the entry, or NoObj for None
_get_cache(cache, key, t) ==
    IF key \notin DOMAIN cache THEN NoObj
    ELSE IF Expired(t, cache[key].ts) THEN NoObj
    ELSE cache[key].data

\* The key the call of r computes (lines 122 and 195).
KeyOf(r) ==
    IF r.op = "build_groups"
    THEN _cache_key(_group_analyses_by_student(r.analyses))
    ELSE _cache_key_for_class(r.analyses, r.class_name)

\* data = ...; _store_cache(key, data); return data.  The new entry holds a
\* new dict: a caller that still holds the payload of the replaced entry
\* keeps that object as it is now.
StoreAndReturn(p, payload) ==
    LET key == KeyOf(procs[p])
    IN /\ _CACHE' = _store_cache(_CACHE, key, payload, now)
       /\ procs' = [q \in Procs |->
                      IF q = p
                      THEN [Forget(procs[p]) EXCEPT !.pc = "done", !.payload = payload,
                                                    !.result = Entry(key)]
                      ELSE IF procs[q].result = Entry(key)
                      THEN [procs[q] EXCEPT !.result = _CACHE[key].data]
                      ELSE procs[q]]

\* A hit that marks a copy and leaves the entry's dict alone.
MarkCachedOnCopy(cache, key) == cache

\* A hit that also renews the timestamp of the entry.
MarkCachedRenews(cache, key) ==
    [cache EXCEPT ![key].data.cached = TRUE, ![key].ts = @ + 1]

\* cached['cached'] = True, on the dict the entry holds
MarkCached(cache, key) == [cache EXCEPT ![key].data.cached = TRUE]

\* if not force: cached = _get_cache(key); if cached: cached['cached'] = True;
\* return cached.  A miss continues at label miss after llm_available().
ReadCache(p, miss) ==
    LET key == KeyOf(procs[p])
        cached == _get_cache(_CACHE, key, now)
    IN IF cached # NoObj
       THEN /\ _CACHE' = MarkCached(_CACHE, key)
            /\ Goto(p, [Forget(procs[p]) EXCEPT !.pc = "done", !.result = Entry(key)])
       ELSE /\ Goto(p, CallInit(procs[p], miss))
            /\ UNCHANGED _CACHE

(* ---------------------------- build_groups ---------------------------- *)
\* lines 115-127, up to the first access to module state
StartGroupsOn(p, batches) ==
    /\ StartsCall(p)
    /\ \E analyses \in batches, force \in BOOLEAN :
         LET r == [Begin(p, "build_groups") EXCEPT !.analyses = analyses,
                                                   !.force = force]
         IN IF analyses = << >> THEN Goto(p, CallInit(r, "bg_empty"))
            ELSE IF ReadsCache(force) THEN Goto(p, [r EXCEPT !.pc = "bg_read"])
            ELSE Goto(p, CallInit(r, "bg_available"))
    /\ UNCHANGED <<Db, Gateway, Clock, _METRICS, _CACHE, firstObserved, serial>>

StartGroups(p) == StartGroupsOn(p, Batches)

\* build_groups called with a record list of any order
StartGroupsWide(p) == StartGroupsOn(p, WideBatches)

\* line 116
BgEmpty(p) ==
    /\ procs[p].pc = "bg_empty"
    /\ Goto(p, [Forget(procs[p]) EXCEPT !.pc = "done",
                                !.result = EmptyGroups(_LLM_AVAILABLE)])
    /\ UNCHANGED <<Db, Gateway, Clock, _METRICS, _CACHE, Calls>>

\* lines 124-127
BgRead(p) ==
    /\ procs[p].pc = "bg_read"
    /\ ReadCache(p, "bg_available")
    /\ UNCHANGED <<Db, Gateway, Clock, _METRICS, Calls>>

\* lines 128-143
BgAvailable(p) ==
    /\ procs[p].pc = "bg_available"
    /\ IF ~_LLM_AVAILABLE
       THEN StoreAndReturn(p, fallback_groups(
                                 _group_analyses_by_student(procs[p].analyses)))
       ELSE /\ Goto(p, CallGenerate(
                          [procs[p] EXCEPT !.lines = PromptLines(
                              _group_analyses_by_student(procs[p].analyses))],
                          GroupsMaxRetries, "bg_generated"))
            /\ UNCHANGED _CACHE
    /\ UNCHANGED <<Db, Gateway, Clock, _METRICS, Calls>>

\* lines 144-147: the generation failed or the payload has no "groups"
BgFallback(p) ==
    /\ procs[p].pc = "bg_generated"
    /\ ~procs[p].gres.success \/ procs[p].gres.data.shape = "nokey"
    /\ StoreAndReturn(p, fallback_groups(
                            _group_analyses_by_student(procs[p].analyses)))
    /\ UNCHANGED <<Db, Gateway, Clock, _METRICS, Calls>>

\* lines 148-169: the sanitization raises on a field of the wrong type
BgRaise(p) ==
    /\ procs[p].pc = "bg_generated"
    /\ procs[p].gres.success /\ procs[p].gres.data.shape = "badtype"
    /\ Goto(p, [Forget(procs[p]) EXCEPT !.pc = "raised", !.result = Raised])
    /\ UNCHANGED <<Db, Gateway, Clock, _METRICS, _CACHE, Calls>>

\* lines 148-172
BgModel(p) ==
    /\ procs[p].pc = "bg_generated"
    /\ procs[p].gres.success /\ procs[p].gres.data.shape = "ok"
    /\ StoreAndReturn(p, GroupsPayload(procs[p].gres.data))
    /\ UNCHANGED <<Db, Gateway, Clock, _METRICS, Calls>>

(* ------------------------ build_class_insights ------------------------ *)
\* lines 190-200, up to the first access to module state
StartClassOn(p, batches) ==
    /\ StartsCall(p)
    /\ \E analyses \in batches, class_name \in ClassNames, force \in BOOLEAN :
         LET r == [Begin(p, "build_class_insights") EXCEPT
                      !.analyses = analyses, !.class_name = class_name,
                      !.force = force]
         IN IF analyses = << >> THEN Goto(p, CallInit(r, "ci_empty"))
            ELSE IF ReadsCache(force) THEN Goto(p, [r EXCEPT !.pc = "ci_read"])
            ELSE Goto(p, CallInit(r, "ci_available"))
    /\ UNCHANGED <<Db, Gateway, Clock, _METRICS, _CACHE, firstObserved, serial>>

StartClass(p) == StartClassOn(p, Batches)

\* line 192
CiEmpty(p) ==
    /\ procs[p].pc = "ci_empty"
    /\ Goto(p, [Forget(procs[p]) EXCEPT !.pc = "done",
                  !.result = ClassEmpty(procs[p].class_name, _LLM_AVAILABLE)])
    /\ UNCHANGED <<Db, Gateway, Clock, _METRICS, _CACHE, Calls>>

\* lines 197-200
CiRead(p) ==
    /\ procs[p].pc = "ci_read"
    /\ ReadCache(p, "ci_available")
    /\ UNCHANGED <<Db, Gateway, Clock, _METRICS, Calls>>

\* lines 203-243
CiAvailable(p) ==
    /\ procs[p].pc = "ci_available"
    /\ IF ~_LLM_AVAILABLE
       THEN StoreAndReturn(p, ClassHeuristic(procs[p].analyses, procs[p].class_name))
       ELSE /\ Goto(p, CallGenerate(procs[p], ClassMaxRetries, "ci_generated"))
            /\ UNCHANGED _CACHE
    /\ UNCHANGED <<Db, Gateway, Clock, _METRICS, Calls>>

\* lines 244-246: the generation failed; "not llm_available()" is evaluated
CiFailure(p) ==
    /\ procs[p].pc = "ci_generated"
    /\ ~procs[p].gres.success
    /\ Goto(p, CallInit(procs[p], "ci_failed"))
    /\ UNCHANGED <<Db, Gateway, Clock, _METRICS, _CACHE, Calls>>

\* lines 246-248: the recursive call with force=True when the gateway is
\* no longer available (its result is stored again by the outer call), else
\* the zeroed structure tagged llm=True
CiFailed(p) ==
    /\ procs[p].pc = "ci_failed"
    /\ IF ~_LLM_AVAILABLE
       THEN /\ Goto(p, CallInit(procs[p], "ci_available"))
            /\ UNCHANGED _CACHE
       ELSE StoreAndReturn(p, ClassFailed(procs[p].analyses, procs[p].class_name))
    /\ UNCHANGED <<Db, Gateway, Clock, _METRICS, Calls>>

\* line 253: int(data.get('student_count') or len(analyses)) raises
CiRaise(p) ==
    /\ procs[p].pc = "ci_generated"
    /\ procs[p].gres.success /\ procs[p].gres.data.shape = "badtype"
    /\ Goto(p, [Forget(procs[p]) EXCEPT !.pc = "raised", !.result = Raised])
    /\ UNCHANGED <<Db, Gateway, Clock, _METRICS, _CACHE, Calls>>

\* lines 250-261
CiModel(p) ==
    /\ procs[p].pc = "ci_generated"
    /\ procs[p].gres.success /\ procs[p].gres.data.shape # "badtype"
    /\ StoreAndReturn(p, ClassPayload(procs[p].gres.data, procs[p].analyses,
                                      procs[p].class_name))
    /\ UNCHANGED <<Db, Gateway, Clock, _METRICS, Calls>>

(* --------------------------------- db --------------------------------- *)
\* main.py get_students and create_student: the request arrives and the
\* helper of db.py is entered.  The document of a create carries a fresh
\* uuid4 as its id.
StartDb(p) ==
    /\ StartsCall(p)
    /\ \/ Goto(p, [Begin(p, "list_students") EXCEPT !.pc = "ensure"])
       \/ \E name \in {"Anna Smith", "anna smith", "Caio Lima"},
             class_name \in {"5th A", "5th a"} :
            Goto(p, [Begin(p, "create_student") EXCEPT
                        !.pc = "ensure",
                        !.student = [id |-> <<"uuid-1", "uuid-2">>[p],
                                     name |-> name, class_name |-> class_name]])
    /\ UNCHANGED <<Db, Gateway, Clock, _METRICS, _CACHE, Calls>>

\* _ensure_initialized: if _client is None: init_db(), whose first lines
\* return when _client is set by then and go on to take the lock otherwise
\* (MONGO_URI is defined)
EnsureInitialized(p) ==
    /\ procs[p].pc = "ensure"
    /\ IF _client # "None"
       THEN Goto(p, [procs[p] EXCEPT !.pc = "helper"])
       ELSE Goto(p, [procs[p] EXCEPT !.pc = "init_lock"])
    /\ UNCHANGED <<Db, Gateway, Clock, _METRICS, _CACHE, Calls>>

\* init_db from "with _client_lock:" on, statement by statement; the server
\* answers the ping.
InitDb(p) ==
    /\ \/ \* with _client_lock: if _client is not None: return
          /\ procs[p].pc = "init_lock"
          /\ _client_lock = 0
          /\ IF _client # "None"
             THEN /\ Goto(p, [procs[p] EXCEPT !.pc = "helper"])
                  /\ UNCHANGED _client_lock
             ELSE /\ Goto(p, [procs[p] EXCEPT !.pc = "init_client"])
                  /\ _client_lock' = p
          /\ UNCHANGED <<_client, _students_col, _analyses_col, students, nclients>>
       \/ \* client = MongoClient(...); ping; the collections and their
          \* indexes; _client = client
          /\ procs[p].pc = "init_client"
          /\ nclients' = nclients + 1
          /\ _client' = "MongoClient"
          /\ Goto(p, [procs[p] EXCEPT !.pc = "init_students"])
          /\ UNCHANGED <<_students_col, _analyses_col, _client_lock, students>>
       \/ \* _students_col = students_col
          /\ procs[p].pc = "init_students"
          /\ _students_col' = "students"
          /\ Goto(p, [procs[p] EXCEPT !.pc = "init_analyses"])
          /\ UNCHANGED <<_client, _analyses_col, _client_lock, students, nclients>>
       \/ \* _analyses_col = analyses_col
          /\ procs[p].pc = "init_analyses"
          /\ _analyses_col' = "analyses"
          /\ Goto(p, [procs[p] EXCEPT !.pc = "init_seed"])
          /\ UNCHANGED <<_client, _students_col, _client_lock, students, nclients>>
       \/ \* _auto_import_json_if_needed() finds no JSON file;
          \* _ensure_default_students() seeds an empty collection; the lock
          \* is released on leaving the with block
          /\ procs[p].pc = "init_seed"
          /\ students' = IF students = {}
                         THEN {[id |-> "d6133d2a", name |-> "Anna Smith",
                                class_name |-> "5th A"],
                               [id |-> "d20743a8", name |-> "Bruno Johnson",
                                class_name |-> "5th A"]}
                         ELSE students
          /\ _client_lock' = 0
          /\ Goto(p, [procs[p] EXCEPT !.pc = "helper"])
          /\ UNCHANGED <<_client, _students_col, _analyses_col, nclients>>
    /\ UNCHANGED <<Gateway, Clock, _METRICS, _CACHE, Calls>>

\* list_students after _ensure_initialized(): [] without a collection handle,
\* else the documents found
ListStudents(p) ==
    /\ procs[p].pc = "helper" /\ procs[p].op = "list_students"
    /\ Goto(p, [procs[p] EXCEPT
                  !.pc = "done",
                  !.result = [kind |-> "students",
                              handle |-> _students_col,
                              students |-> IF _students_col = "None" THEN {}
                                           ELSE students]])
    /\ UNCHANGED <<Db, Gateway, Clock, _METRICS, _CACHE, Calls>>

\* create_student after _ensure_initialized(): RuntimeError without a
\* collection handle; find_one with the two case-insensitive anchored
\* patterns and ValueError on a match; then, in a second round trip to the
\* database, insert_one and the stored document.
CreateStudent(p) ==
    LET Lower(s) == CASE s = "Anna Smith" -> "anna smith"
                      [] s = "Bruno Johnson" -> "bruno johnson"
                      [] s = "Caio Lima" -> "caio lima"
                      [] s = "5th A" -> "5th a"
                      [] OTHER -> s
        student == procs[p].student
        existing == {s \in students :
                        /\ Lower(s.name) = Lower(student.name)
                        /\ Lower(s.class_name) = Lower(student.class_name)}
    IN /\ procs[p].op = "create_student"
       /\ \/ /\ procs[p].pc = "helper"
             /\ IF _students_col = "None"
                THEN Goto(p, [procs[p] EXCEPT
                                 !.pc = "raised",
                                 !.result = [kind |-> "raised",
                                             error |-> "RuntimeError"]])
                ELSE IF student.name # "" /\ existing # {}
                THEN Goto(p, [procs[p] EXCEPT
                                 !.pc = "raised",
                                 !.result = [kind |-> "raised",
                                             error |-> "ValueError"]])
                ELSE Goto(p, [procs[p] EXCEPT !.pc = "insert"])
             /\ UNCHANGED students
          \/ /\ procs[p].pc = "insert"
             /\ students' = students \cup {student}
             /\ Goto(p, [procs[p] EXCEPT
                            !.pc = "done",
                            !.result = [kind |-> "student", student |-> student]])
       /\ UNCHANGED <<_client, _students_col, _analyses_col, _client_lock, nclients>>
       /\ UNCHANGED <<Gateway, Clock, _METRICS, _CACHE, Calls>>

(* --------------------------- specifications --------------------------- *)
GatewayStep(p) ==
    \/ InitCheck(p) \/ InitSetProvider(p) \/ InitSetAvailable(p)
    \/ GenCheck(p) \/ GenLoop(p) \/ GenException(p) \/ GenAnswer(p)

DirectStep(p) ==
    \/ StartAvailable(p) \/ AvailReturn(p) \/ StartGenerate(p) \/ GenReturn(p)

AnalyzeStep(p) ==
    \/ StartAnalyze(p) \/ AnAvailable(p) \/ AnPrimary(p) \/ AnLegacy(p)

GroupsStep(p) ==
    \/ StartGroups(p) \/ BgEmpty(p) \/ BgRead(p) \/ BgAvailable(p)
    \/ BgFallback(p) \/ BgRaise(p) \/ BgModel(p)

ClassStep(p) ==
    \/ StartClass(p) \/ CiEmpty(p) \/ CiRead(p) \/ CiAvailable(p)
    \/ CiFailure(p) \/ CiFailed(p) \/ CiRaise(p) \/ CiModel(p)

\* The whole service.
Next ==
    \/ \E p \in Procs :
         \/ GatewayStep(p) \/ DirectStep(p) \/ AnalyzeStep(p) \/ Substitute(p)
         \/ GroupsStep(p) \/ ClassStep(p)
    \/ Tick
    \/ EnvChange

Spec == Init /\ [][Next]_vars

\* The gateway alone, called by concurrent requests.
NextGateway ==
    \/ \E p \in Procs : GatewayStep(p) \/ DirectStep(p)
    \/ EnvChange

SpecGateway == InitConcurrent /\ [][NextGateway]_vars

\* The gateway called by one request after another while the credential
\* environment changes.
SpecGatewaySeq == InitSerial /\ [][NextGateway]_vars

\* The cached operations called by concurrent requests.
NextCacheRace ==
    \E p \in Procs : GatewayStep(p) \/ GroupsStep(p) \/ ClassStep(p)

SpecCacheRace == InitFixedConcurrent /\ [][NextCacheRace]_vars

\* The cached operations called by one request after another while time
\* passes.
NextCache ==
    \/ \E p \in Procs : GatewayStep(p) \/ GroupsStep(p) \/ ClassStep(p)
    \/ Tick

SpecCache == InitFixedSerial /\ [][NextCache]_vars

\* The analysis of a submission, before or after another request used the
\* gateway directly.
NextAnalyze ==
    \/ GatewayStep(1) \/ DirectStep(1)
    \/ GatewayStep(2) \/ AnalyzeStep(2)

SpecAnalyze == InitFixedSerial /\ [][NextAnalyze]_vars

\* generate called by concurrent requests whose threads can be preempted
\* inside an increment of a counter.
NextMetricsRace ==
    \E p \in Procs :
        \/ GatewayStep(p) \/ GenPreempted(p)
        \/ StartGenerate(p) \/ GenReturn(p)

SpecMetricsRace == InitConcurrent /\ [][NextMetricsRace]_vars

\* The student helpers of db.py called by concurrent requests, the first of
\* which initialize the database.
NextDb ==
    \E p \in Procs :
        \/ StartDb(p) \/ EnsureInitialized(p) \/ InitDb(p)
        \/ ListStudents(p) \/ CreateStudent(p)

SpecDb == InitFixedConcurrent /\ [][NextDb]_vars

\* build_groups called by one request with record lists of every order.
NextGroupsWide ==
    \/ InitCheck(1) \/ InitSetProvider(1) \/ InitSetAvailable(1)
    \/ GenCheck(1) \/ GenLoop(1) \/ GenException(1)
    \/ GenAnswerOn(1, RawTexts
                      \cup [kind : {"fenced"}, parses : {TRUE}, data : SizedData]
                      \cup [kind : {"fenced"}, parses : {TRUE},
                            data : [shape : {"ok"}, v : {1}, student : Students]])
    \/ StartGroupsWide(1) \/ BgEmpty(1) \/ BgRead(1) \/ BgAvailable(1)
    \/ BgFallback(1) \/ BgRaise(1) \/ BgModel(1)

SpecGroupsWide == InitFixedSerial /\ [][NextGroupsWide]_vars

\* build_class_insights called by one request with record lists of every
\* order, with records that lack a usable errorPercentage and with lists
\* longer than the summary.
NextClassWide ==
    \/ GatewayStep(1)
    \/ StartClassOn(1, ClassBatches) \/ CiEmpty(1) \/ CiRead(1) \/ CiAvailable(1)
    \/ CiFailure(1) \/ CiFailed(1) \/ CiRaise(1) \/ CiModel(1)

SpecClassWide == InitFixedSerial /\ [][NextClassWide]_vars

\* analyze called by one request, the model free in the errorPercentage of
\* its payloads.
NextAnalyzeWide ==
    \/ InitCheck(1) \/ InitSetProvider(1) \/ InitSetAvailable(1)
    \/ GenCheck(1) \/ GenLoop(1) \/ GenException(1) \/ GenAnswerWide(1)
    \/ AnalyzeStep(1) \/ Substitute(1)

SpecAnalyzeWide == InitFixedSerial /\ [][NextAnalyzeWide]_vars

\* analyze called by one request with the texts the exercise detection
\* tells apart.
NextAnalyzeText ==
    \/ InitCheck(1) \/ InitSetProvider(1) \/ InitSetAvailable(1)
    \/ GenCheck(1) \/ GenLoop(1) \/ GenAnswerOn(1, ScoreRawTexts)
    \/ StartAnalyzeOn(1, PieceTexts) \/ AnAvailable(1) \/ AnPrimary(1) \/ AnLegacy(1)

SpecAnalyzeText == InitFixedSerial /\ [][NextAnalyzeText]_vars

(* ----------------------------- properties ----------------------------- *)
BuildOps == {"build_groups", "build_class_insights"}

\* The structure a finished request returned, its cached mark apart.
Content(r) == [Deref(r.result) EXCEPT !.cached = FALSE]

\* The heuristic result of the operation of r for its input.
HeuristicOf(r) ==
    IF r.op = "build_groups"
    THEN fallback_groups(_group_analyses_by_student(r.analyses))
    ELSE ClassHeuristic(r.analyses, r.class_name)

\* The returned content is one the model produced.
ModelMade(r) ==
    IF r.op = "analyze" THEN "ai_structured" \in DOMAIN Deref(r.result)
    ELSE IF r.op = "build_groups"
    THEN \E d \in Data : d.shape = "ok" /\ Content(r) = GroupsPayload(d)
    ELSE \E d \in Data :
            /\ d.shape # "badtype"
            /\ Content(r) = ClassPayload(d, r.analyses, r.class_name)

AllSpaces(t) == \A i \in 1..Len(t) : t[i] = " "

\* C1: a generate call with max_retries = r on an available provider never
\* issues more than r + 1 provider attempts; when it returns success, every
\* attempt before its last one failed and none followed it; when it returns
\* success = false, exactly r + 1 attempts were issued and all of them failed.
C1_AttemptBudget ==
    \A p \in Procs :
        procs[p].op = "generate" =>
            /\ procs[p].nreq <= procs[p].max_retries + 1
            /\ procs[p].nreq - 1 <= procs[p].attempt
            /\ procs[p].attempt <= procs[p].nreq
            /\ (procs[p].pc = "done" /\ procs[p].result.success) =>
                   procs[p].nreq = procs[p].attempt + 1
            /\ (procs[p].pc = "done" /\ procs[p].result.llm_enabled
                  /\ ~procs[p].result.success) =>
                   /\ procs[p].nreq = procs[p].max_retries + 1
                   /\ procs[p].attempt = procs[p].nreq

\* A generate call that retried and returned success = false.
C1_Exhausted ==
    \E p \in Procs :
        /\ procs[p].op = "generate" /\ procs[p].pc = "done"
        /\ procs[p].result.llm_enabled /\ ~procs[p].result.success
        /\ procs[p].max_retries >= 1
        /\ procs[p].nreq = procs[p].max_retries + 1

\* C2: when every attempt of the generation call of a build_groups or
\* build_class_insights request failed, the request ends without an exception
\* and what it returns is the heuristic fallback result for its input.
C2_FailureDegrades ==
    \A p \in Procs :
        (/\ Finished(p) /\ procs[p].op \in BuildOps
         /\ procs[p].gres.llm_enabled /\ ~procs[p].gres.success) =>
            /\ procs[p].pc = "done"
            /\ Content(procs[p]) = HeuristicOf(procs[p])

\* C3: every generate / is_available call observes the provider selection
\* the first call observed, whatever happened to the credential environment.
C3_SelectionFixed ==
    \A p \in Procs : procs[p].obs # "unset" => procs[p].obs = firstObserved

\* C4: every structure analyze, build_groups or build_class_insights returns
\* has an llm field, and it is true exactly when the content is the model's.
C4_LlmFlagExact ==
    \A p \in Procs :
        (procs[p].pc = "done" /\ procs[p].op \in BuildOps \cup {"analyze"}) =>
            /\ "llm" \in DOMAIN Deref(procs[p].result)
            /\ Deref(procs[p].result).llm <=> ModelMade(procs[p])

\* C5: the cache read of a request is a hit exactly when the key has an
\* entry and now - entry.ts <= 120; it is absent when there is no entry or
\* now - entry.ts > 120.  A hit hands out the payload of the entry.
C5_AbsentIffExpired ==
    [][\A p \in Procs :
          (procs[p].pc \in {"bg_read", "ci_read"} /\ procs'[p] # procs[p]) =>
              LET key == KeyOf(procs[p])
                  fresh == /\ key \in DOMAIN _CACHE
                           /\ now - _CACHE[key].ts <= CACHE_TTL_SECONDS
              IN /\ (procs'[p].pc = "done") <=> fresh
                 /\ fresh => procs'[p].result = Entry(key)
                 /\ ~fresh => procs'[p].pc = "init"]_vars

\* A read at t = 121 that missed the entry written at t = 0.
C5_MissAt121 ==
    \E p \in Procs :
        /\ procs[p].op \in BuildOps /\ ~procs[p].force
        /\ procs[p].pc = "init"
        /\ procs[p].ret \in {"bg_available", "ci_available"}
        /\ KeyOf(procs[p]) \in DOMAIN _CACHE
        /\ _CACHE[KeyOf(procs[p])].ts = 0
        /\ now = CACHE_TTL_SECONDS + 1

\* The call of q follows the finished call of p: build_groups with the same
\* input, both with force = False.
Consecutive(p, q) ==
    /\ p # q
    /\ procs[p].op = "build_groups" /\ procs[p].pc = "done" /\ ~procs[p].force
    /\ procs[q].op = "build_groups" /\ ~Finished(q) /\ ~procs[q].force
    /\ procs[q].analyses = procs[p].analyses

\* C6 as stated: for every input, the second of two consecutive build_groups
\* calls with the same input returns the content the first returned, with
\* cached = true.
C6_Idempotent ==
    [][\A p, q \in Procs :
          (Consecutive(p, q) /\ Finished(q)') =>
              /\ procs'[q].pc = "done"
              /\ Content(procs[q])' = Content(procs[p])'
              /\ (Deref(procs[q].result).cached)']_vars

\* C6 amended: for every non-empty input, when the second call reads the
\* cache no later than TTL seconds after the first call stored its payload,
\* it returns the content the first returned, with cached = true.
C6_IdempotentWithinTTL ==
    [][\A p, q \in Procs :
          (/\ Consecutive(p, q) /\ Finished(q)'
           /\ procs[p].analyses # << >>
           /\ KeyOf(procs[p]) \in DOMAIN _CACHE
           /\ now - _CACHE[KeyOf(procs[p])].ts <= CACHE_TTL_SECONDS) =>
              /\ procs'[q].pc = "done"
              /\ Content(procs[q])' = Content(procs[p])'
              /\ (Deref(procs[q].result).cached)']_vars

\* Two finished build_groups calls with the same non-empty input, the first
\* computed, the second served from the cache with cached = true.
C6_SecondIsHit ==
    \E p, q \in Procs :
        /\ p # q
        /\ procs[p].op = "build_groups" /\ procs[q].op = "build_groups"
        /\ procs[p].pc = "done" /\ procs[q].pc = "done"
        /\ ~procs[p].force /\ ~procs[q].force
        /\ procs[p].analyses # << >> /\ procs[q].analyses = procs[p].analyses
        /\ procs[p].payload # NoObj /\ procs[q].payload = NoObj
        /\ Deref(procs[q].result).cached
        /\ Deref(procs[q].result).llm

\* The request r recomputed: a provider attempt was issued, or the heuristic
\* path produced its payload.
Recomputed(r) ==
    \/ r.nreq >= 1
    \/ r.pc = "done" /\ r.payload = HeuristicOf(r)

\* The request r returned the payload it computed, and the entry of its key
\* holds that payload with the time of the write.
WroteBack(r, cache, t) ==
    /\ r.pc = "done"
    /\ r.payload # NoObj
    /\ KeyOf(r) \in DOMAIN cache
    /\ cache[KeyOf(r)] = [data |-> r.payload, ts |-> t]

C8_NoInPlaceUpdate ==
    [][\A k \in DOMAIN _CACHE :
          \/ k \in DOMAIN _CACHE' /\ _CACHE'[k] = _CACHE[k]
          \/ \E p \in Procs :
                /\ procs[p].payload = NoObj /\ procs'[p].payload # NoObj
                /\ KeyOf(procs'[p]) = k]_vars

\* C9: after two concurrent requests with the same input both computed and
\* stored, the key has an entry and its payload is, in full, the payload one
\* of the two computed.
C9_DuplicateWrite ==
    \A p, q \in Procs :
        (/\ p # q
         /\ procs[p].op \in BuildOps /\ procs[q].op = procs[p].op
         /\ procs[p].pc = "done" /\ procs[q].pc = "done"
         /\ KeyOf(procs[q]) = KeyOf(procs[p])
         /\ procs[p].payload # NoObj /\ procs[q].payload # NoObj) =>
            /\ KeyOf(procs[p]) \in DOMAIN _CACHE
            /\ \/ _CACHE[KeyOf(procs[p])].data = procs[p].payload
               \/ _CACHE[KeyOf(procs[p])].data = procs[q].payload

\* Two unforced requests with the same input both missed, and computed
\* payloads that differ.
C9_BothMissed ==
    \E p, q \in Procs :
        /\ p # q
        /\ procs[p].op \in BuildOps /\ procs[q].op = procs[p].op
        /\ procs[p].pc = "done" /\ procs[q].pc = "done"
        /\ ~procs[p].force /\ ~procs[q].force
        /\ KeyOf(procs[q]) = KeyOf(procs[p])
        /\ procs[p].payload # NoObj /\ procs[q].payload # NoObj
        /\ procs[p].payload.llm /\ ~procs[q].payload.llm

\* C10: analyze on an empty or all-space text returns at once, with
\* errorPercentage 100 and no concepts, and the metrics of the gateway are
\* what they were, whether or not the gateway is available.
C10_BlankSubmission ==
    [][\A p \in Procs :
          (/\ procs[p].pc = "idle" /\ procs'[p].op = "analyze"
           /\ AllSpaces(procs'[p].text)) =>
              /\ procs'[p].pc = "done"
              /\ procs'[p].result.errorPercentage = 100
              /\ procs'[p].result.concepts = << >>
              /\ procs'[p].nreq = 0
              /\ _METRICS' = _METRICS]_vars

\* analyze returned for an all-space text while the gateway was available
\* and had already served attempts.
C10_BlankWhileAvailable ==
    \E p \in Procs :
        /\ procs[p].op = "analyze" /\ procs[p].pc = "done"
        /\ Len(procs[p].text) = MaxTextLen /\ AllSpaces(procs[p].text)
        /\ procs[p].result.errorPercentage = 100
        /\ procs[p].nreq = 0
        /\ _LLM_AVAILABLE /\ _METRICS.requests > 0

\* The heuristic analysis of the text of r, as fallback_analysis returns it.
IsFallbackAnalysis(x) ==
    /\ x.mainError = "Pending advanced analysis (LLM disabled)"
    /\ x.reasoning = "Fallback heuristic"
    /\ "ai_structured" \notin DOMAIN x

\* C11: analyze takes its branches in order.  With a non-empty text and an
\* unavailable gateway it returns the heuristic fallback without a generation
\* call or a provider attempt; when the primary call failed it returns the
\* heuristic fallback and issues no legacy call; the legacy call is issued
\* only after a primary call that succeeded; so one analyze issues at most two
\* generation calls.
C11_BranchOrder ==
    [][\A p \in Procs :
          procs'[p].op = "analyze" =>
              /\ procs'[p].ngen <= 2
              /\ (procs[p].pc = "an_available" /\ procs'[p].pc # "an_available"
                    /\ ~_LLM_AVAILABLE) =>
                     /\ procs'[p].pc = "done"
                     /\ IsFallbackAnalysis(procs'[p].result)
                     /\ procs'[p].ngen = 0 /\ procs'[p].nreq = 0
                     /\ _METRICS' = _METRICS
              /\ (procs[p].pc = "an_primary" /\ procs'[p].pc # "an_primary"
                    /\ ~procs[p].gres.success) =>
                     /\ procs'[p].pc = "done"
                     /\ IsFallbackAnalysis(procs'[p].result)
                     /\ procs'[p].ngen = 1
              /\ (procs'[p].gret = "an_legacy" /\ procs[p].gret # "an_legacy") =>
                     /\ procs[p].pc = "an_primary" /\ procs[p].gres.success
                     /\ procs[p].ngen = 1 /\ procs'[p].ngen = 2]_vars

\* analyze returned the heuristic fallback after its primary call had used
\* its whole budget of attempts, and no second generation call was made.
C11_PrimaryFailed ==
    \E p \in Procs :
        /\ procs[p].op = "analyze" /\ procs[p].pc = "done"
        /\ IsFallbackAnalysis(procs[p].result)
        /\ procs[p].ngen = 1 /\ procs[p].nreq = DefaultMaxRetries + 1
        /\ ~procs[p].gres.success

\* The five normalized fields analyze derives from the primary payload d.
PrimaryView(d) ==
    [mainError |-> ModelMainError(d),
     errorPercentage |-> Max(0, Min(100, ModelErrorPct(d))),
     concepts |-> IF d.shape = "nokey" THEN << >> ELSE <<"c">>,
     suggestions |-> IF d.shape = "nokey" THEN << >> ELSE <<"s">>,
     reasoning |-> IF d.shape = "nokey" THEN "" ELSE "r"]

ViewOf(x) ==
    [mainError |-> x.mainError, errorPercentage |-> x.errorPercentage,
     concepts |-> x.concepts, suggestions |-> x.suggestions,
     reasoning |-> x.reasoning]

\* C12: an analyze whose primary call succeeded and whose legacy call was
\* issued returns the model-backed result: its mainError, errorPercentage,
\* concepts, suggestions and reasoning are those of the primary payload,
\* whether the legacy call succeeded or failed, and when the legacy call
\* failed the legacy payload is absent.
C12_LegacyNonFatal ==
    \A p \in Procs :
        (procs[p].op = "analyze" /\ Finished(p) /\ procs[p].ngen = 2) =>
            /\ procs[p].pc = "done"
            /\ "ai_structured" \in DOMAIN procs[p].result
            /\ procs[p].result.ai_analysis \in Data
            /\ ViewOf(procs[p].result) = PrimaryView(procs[p].result.ai_analysis)
            /\ ~procs[p].gres.success => procs[p].result.ai_structured = NoData
            /\ procs[p].gres.success => procs[p].result.ai_structured \in Data

\* analyze returned a model-backed result after every attempt of its legacy
\* call had failed.
C12_LegacyExhausted ==
    \E p \in Procs :
        /\ procs[p].op = "analyze" /\ procs[p].pc = "done" /\ procs[p].ngen = 2
        /\ procs[p].gres.llm_enabled /\ ~procs[p].gres.success
        /\ procs[p].result.mainError = "m1"
        /\ procs[p].result.ai_structured = NoData

\* The texts from which no JSON object can be extracted: no fenced block and
\* not a bare {...} text, or a candidate json.loads rejects.
NoJsonIn(raw) == raw.kind = "prose" \/ ~raw.parses

\* C13: a response from which no JSON object can be extracted is a
\* recoverable failure of the attempt.  _extract_json gives nothing exactly
\* for those texts; the attempt that received one ends as an attempt that
\* raised ends: the attempt counter and the backoff advance by one step and
\* the loop test is next; the loop issues another attempt while the budget
\* remains; and a provider attempt never ends the call with a failure.
C13_NoJsonRecoverable ==
    [][/\ \A raw \in RawTexts : NoJsonIn(raw) <=> _extract_json(raw) = NoData
       /\ \A p \in Procs :
            /\ (/\ procs[p].pc = "gen_call" /\ procs'[p].pc # "gen_call"
                 /\ ~procs'[p].gres.success) =>
                    procs'[p] = [procs[p] EXCEPT !.pc = "gen_loop",
                                   !.attempt = @ + 1,
                                   !.slept = @ + procs[p].attempt + 1,
                                   !.nerr = procs'[p].nerr]
            /\ (/\ procs[p].pc = "gen_loop" /\ procs'[p].pc # "gen_loop"
                 /\ procs[p].attempt <= procs[p].max_retries) =>
                    procs'[p].pc = "gen_call" /\ procs'[p].nreq = procs[p].nreq + 1]_vars

\* A generate call returned success on its second attempt although no
\* attempt of any call had raised: its first response carried no JSON object.
C13_RetriedAfterNoJson ==
    \E p \in Procs :
        /\ procs[p].op = "generate" /\ procs[p].pc = "done"
        /\ procs[p].result.success
        /\ procs[p].nreq = 2 /\ procs[p].attempt = 1
        /\ _METRICS.errors = 0

\* The structure the step of p returns, its cached mark apart.
ContentAfter(p) ==
    LET r == procs'[p].result
        x == IF r.kind = "entry" THEN _CACHE'[r.key].data ELSE r
    IN [x EXCEPT !.cached = FALSE]

\* C14: when the generation call of build_groups or build_class_insights
\* reports success with a malformed payload (the required key missing, or a
\* field of a type the sanitization cannot handle), the operation raises
\* nothing and returns the heuristic result for its input.
C14_MalformedDegrades ==
    [][\A p \in Procs :
          (/\ procs[p].pc \in {"bg_generated", "ci_generated"}
           /\ procs'[p].pc # procs[p].pc
           /\ procs[p].gres.success /\ procs[p].gres.data.shape # "ok") =>
              /\ procs'[p].pc = "done"
              /\ ContentAfter(p) = HeuristicOf(procs[p])]_vars

\* C15: build_class_insights on an available gateway whose generation call
\* failed returns the heuristic aggregate of its input records (mean error,
\* errors ranked by frequency, the fixed suggestion, one detail row per
\* record, llm false): the content the path of the unavailable gateway
\* returns.
C15_ClassFailureHeuristic ==
    [][\A p \in Procs :
          (/\ procs[p].op = "build_class_insights"
           /\ procs[p].pc = "ci_failed" /\ procs'[p].pc = "done") =>
              LET c == ContentAfter(p)
              IN /\ c.average_error = AverageError(procs[p].analyses)
                 /\ Len(c.detailed) = Len(procs[p].analyses)
                 /\ c = ClassHeuristic(procs[p].analyses, procs[p].class_name)]_vars

NamesOf(a) == {a[i].studentName : i \in 1..Len(a)}

\* The ids of the records of name n in a that no record of n is newer than.
NewestIds(a, n) ==
    {a[i].id : i \in {k \in 1..Len(a) :
                        /\ a[k].studentName = n
                        /\ \A j \in 1..Len(a) :
                             a[j].studentName = n => a[j].timestamp <= a[k].timestamp}}

\* ids names one record per display name of a, a newest one of that name.
OnePerName(ids, a) ==
    /\ Len(ids) = Cardinality(NamesOf(a))
    /\ \A n \in NamesOf(a) : \E i \in 1..Len(ids) : ids[i] \in NewestIds(a, n)

\* The analysisId of every member of every group, in order.
RECURSIVE MemberIds(_)
MemberIds(groups) ==
    IF groups = << >> THEN << >>
    ELSE [i \in 1..Len(Head(groups).students) |->
             Head(groups).students[i].analysisId] \o MemberIds(Tail(groups))

NewestOf(a) ==
    LET IsNewest(x) == x.id \in NewestIds(a, x.studentName)
    IN SelectSeq(a, IsNewest)

\* C17: in the heuristic aggregate of build_class_insights every entity
\* contributes one representative record: of two records of one entity with
\* different timestamps only the newer is counted in student_count, enters
\* average_error and has a row in detailed.
C17_OnePerEntity ==
    \A p \in Procs :
        (/\ procs[p].op = "build_class_insights" /\ procs[p].pc = "done"
         /\ procs[p].analyses # << >> /\ ~Content(procs[p]).llm) =>
            LET c == Content(procs[p])
                a == procs[p].analyses
            IN /\ c.student_count = Cardinality(NamesOf(a))
               /\ c.average_error = AverageError(NewestOf(a))
               /\ OnePerName([i \in 1..Len(c.detailed) |-> c.detailed[i].analysisId], a)

\* C18: in every group build_groups returns, from the heuristic or from the
\* model whatever the model listed, no entity appears twice in the member
\* list of that group.
C18_NoDuplicateMember ==
    \A p \in Procs :
        (procs[p].op = "build_groups" /\ procs[p].pc = "done") =>
            LET groups == Content(procs[p]).groups
            IN \A k \in 1..Len(groups) :
                 \A i, j \in 1..Len(groups[k].students) :
                    groups[k].students[i].studentName =
                        groups[k].students[j].studentName => i = j

\* The error percentage of the record a member of a group stands for.
PctOfMember(m, a) ==
    LET i == CHOOSE k \in 1..Len(a) : a[k].id = m.analysisId
    IN a[i].errorPercentage

\* C19: the heuristic grouping places a record by its errorPercentage p
\* alone: p < 30 in the advanced group (level high), 30 <= p < 60 in the
\* intermediate group (level medium), p >= 60 in the support group (level
\* low); so 29 is high, 30 and 59 are medium and 60 is low.
C19_BucketBoundaries ==
    \A p \in Procs :
        (/\ procs[p].op = "build_groups" /\ procs[p].pc = "done"
         /\ procs[p].payload # NoObj /\ ~procs[p].payload.llm) =>
            LET groups == procs[p].payload.groups
            IN \A k \in 1..Len(groups) :
                 \A i \in 1..Len(groups[k].students) :
                    LET pct == PctOfMember(groups[k].students[i], procs[p].analyses)
                        g == groups[k]
                    IN /\ pct < 30 <=> (g.level = "high" /\ g.id = "advanced")
                       /\ (30 <= pct /\ pct < 60) <=>
                              (g.level = "medium" /\ g.id = "intermediate")
                       /\ pct >= 60 <=> (g.level = "low" /\ g.id = "needs-support")
                       /\ pct = 29 => g.level = "high"
                       /\ pct \in {30, 59} => g.level = "medium"
                       /\ pct = 60 => g.level = "low"

\* The heuristic grouping returned a group of level high holding the record
\* of 29 and a group of level medium holding the record of 59.
C19_AtTheThresholds ==
    \E p \in Procs :
        /\ procs[p].op = "build_groups" /\ procs[p].pc = "done"
        /\ procs[p].analyses = <<Rec("c1", "Caio", 1, "e1", 29),
                                 Rec("d2", "Duda", 1, "e3", 59)>>
        /\ procs[p].payload # NoObj /\ ~procs[p].payload.llm
        /\ Len(procs[p].payload.groups) = 2
        /\ procs[p].payload.groups[1].level = "high"
        /\ procs[p].payload.groups[1].students[1].analysisId = "c1"
        /\ procs[p].payload.groups[2].level = "medium"
        /\ procs[p].payload.groups[2].students[1].analysisId = "d2"

\* C20: whatever errorPercentage the primary payload carries, the
\* errorPercentage of the result of analyze is an integer of 0..100: a value
\* below 0 gives 0, a value above 100 gives 100, a value within the range
\* gives its integer part, and a missing or unparsable value gives 50.
C20_PctClamped ==
    \A p \in Procs :
        (/\ procs[p].op = "analyze" /\ procs[p].pc = "done"
         /\ "ai_structured" \in DOMAIN procs[p].result) =>
            LET e == procs[p].result.errorPercentage
                d == procs[p].result.ai_analysis
            IN /\ e \in 0..100
               /\ "pct" \in DOMAIN d =>
                    /\ (d.pct.t \in {"int", "numstr"} /\ d.pct.n < 0) => e = 0
                    /\ (d.pct.t \in {"int", "numstr"} /\ d.pct.n > 100) => e = 100
                    /\ (d.pct.t \in {"int", "numstr"} /\ d.pct.n \in 0..100) =>
                           e = d.pct.n
                    /\ (d.pct.t = "float" /\ d.pct.n < 0) => e = 0
                    /\ (d.pct.t = "float" /\ d.pct.n > 1000) => e = 100
                    /\ (d.pct.t = "float" /\ d.pct.n \in 0..1000) =>
                           10 * e <= d.pct.n /\ d.pct.n < 10 * (e + 1)
                    /\ d.pct.t \in {"text", "null", "missing"} => e = 50

\* analyze returned 0 for a payload whose errorPercentage was as far below 0
\* as the model goes.
C20_ClampedFromBelow ==
    \E p \in Procs :
        /\ procs[p].op = "analyze" /\ procs[p].pc = "done"
        /\ "ai_structured" \in DOMAIN procs[p].result
        /\ procs[p].result.ai_analysis = [shape |-> "ok", v |-> 1,
                                          pct |-> [t |-> "int", n |-> 0 - MaxExcess]]
        /\ procs[p].result.errorPercentage = 0


\* The decimal text of a number below 100.
Numeral(n) ==
    LET D == <<"0", "1", "2", "3", "4", "5", "6", "7", "8", "9">>
    IN IF n < 10 THEN <<D[n + 1]>> ELSE <<D[(n \div 10) + 1], D[(n % 10) + 1]>>

\* The model-backed results of analyze that are returned.
Scored(p) ==
    /\ procs[p].op = "analyze" /\ procs[p].pc \in {"done", "answered"}
    /\ "score" \in DOMAIN procs[p].result

\* C21: in every model-backed result of analyze, with total >= 1 exercises
\* and an errorPercentage e in [0, 100], correct is the integer nearest to
\* (100 - e) / 100 * total (the even one of two equally near), it lies in
\* [0, total], and the label is the text correct/total; for total = 4 and
\* e = 25 the score is 3/4.
C21_ScoreRounded ==
    \A p \in Procs :
        Scored(p) =>
            LET sc == procs[p].result.score
                e == procs[p].result.errorPercentage
                diff == 100 * sc.correct - (100 - e) * sc.total
            IN /\ sc.total >= 1 /\ e \in 0..100
               /\ sc.correct \in 0..sc.total
               /\ 2 * diff <= 100 /\ 2 * diff >= 0 - 100
               /\ (2 * diff \in {100, 0 - 100}) => sc.correct % 2 = 0
               /\ sc.label = Numeral(sc.correct) \o <<"/">> \o Numeral(sc.total)
               /\ (sc.total = 4 /\ e = 25) => sc.label = <<"3", "/", "4">>

\* Four exercises were detected and the model reported 25 percent of error.
C21_ThreeOfFour ==
    \E p \in Procs :
        /\ Scored(p)
        /\ procs[p].result.score.total = 4
        /\ procs[p].result.errorPercentage = 25
        /\ procs[p].result.score.correct = 3

\* C22: the number of exercises of a scored result is the count of the first
\* detector, in the order numbered lines, question words, parenthesis-numbered
\* items, question marks, paragraphs, that counts at least 2, whatever the
\* later detectors count, and 1 when no detector counts 2; it is never
\* below 1.
C22_FallbackChain ==
    \A p \in Procs :
        Scored(p) =>
            LET c == DetectorCounts(procs[p].text)
                total == procs[p].result.score.total
            IN /\ total >= 1
               /\ \A i \in 1..5 :
                    (c[i] >= 2 /\ \A j \in 1..(i - 1) : c[j] < 2) => total = c[i]
               /\ (\A i \in 1..5 : c[i] < 2) => total = 1

\* Two numbered lines hold three parenthesis-numbered items: the count of
\* the numbered lines stands.
C22_EarlierWins ==
    \E p \in Procs :
        /\ Scored(p)
        /\ procs[p].text = <<"1", ")", "\n", "1", ")", "1", ")">>
        /\ DetectorCounts(procs[p].text) = <<2, 0, 3, 0, 0>>
        /\ procs[p].result.score.total = 2

Marker == <<"{", "student_name", "}">>

Contains(s, part) ==
    \E i \in 1..(Len(s) - Len(part) + 1) : SubSeq(s, i, i + Len(part) - 1) = part

\* The text a payload carries, if it carries one.
TxtOf(d) == IF "txt" \in DOMAIN d THEN d.txt ELSE << >>

\* The requests the endpoint answered with a feedback text.
Answered(p) ==
    /\ procs[p].op = "analyze" /\ procs[p].pc = "answered"
    /\ "studentFeedback" \in DOMAIN procs[p].result

ModelBackedFields == DOMAIN AnalysisResult([shape |-> "ok", v |-> 1], NoData, << >>)

\* C24: every field of a model-backed result of analyze (score, student
\* feedback template and legacy payload among them) is a field of the
\* heuristic result too.
C24_ShapeCompatible ==
    \A p \in Procs :
        (/\ procs[p].op = "analyze" /\ procs[p].pc = "done"
         /\ procs[p].result.reasoning = "Fallback heuristic")
        => ModelBackedFields \subseteq DOMAIN procs[p].result

\* The groups of a payload build_groups made from a model payload.
ModelPathGroups(p) ==
    IF procs[p].op = "build_groups" /\ procs[p].pc = "done"
       /\ procs[p].payload # NoObj /\ procs[p].payload.llm
    THEN procs[p].payload.groups
    ELSE << >>

C26_LevelValid ==
    \A p \in Procs :
        (/\ procs[p].op = "build_groups" /\ procs[p].pc = "done"
         /\ procs[p].payload # NoObj)
        => \A i \in 1..Len(procs[p].payload.groups) :
              procs[p].payload.groups[i].level \in {"high", "medium", "low"}

\* C27: the backoff of generate is linear.  The step that ends failed attempt
\* number n sleeps n half seconds, and the step that starts attempt n + 1 is
\* taken only when the call has slept 1 + 2 + ... + n half seconds.
C27_LinearBackoff ==
    [][\A p \in Procs :
          /\ (procs[p].pc = "gen_call" /\ procs'[p].pc = "gen_loop") =>
                /\ procs'[p].attempt = procs[p].attempt + 1
                /\ procs'[p].slept = procs[p].slept + procs'[p].attempt
          /\ (procs[p].pc = "gen_loop" /\ procs'[p].pc = "gen_call") =>
                /\ procs'[p].slept = procs[p].slept
                /\ 2 * procs[p].slept = procs[p].attempt * (procs[p].attempt + 1)]_vars

\* The second attempt of a call is under way, half a second after the first.
C27_SecondAttempt ==
    \E p \in Procs :
        procs[p].pc = "gen_call" /\ procs[p].attempt = 1 /\ procs[p].slept = 1

\* C28: is_available() returns true exactly when a provider is resolved.  A
\* resolution yields the first provider when its credential is configured,
\* whether or not the second one's is; otherwise the second provider when
\* its credential is configured and its client can be initialized; otherwise
\* none.
C28_AvailableIffResolved ==
    [][\A p \in Procs :
          /\ (procs[p].pc = "init" /\ procs'[p].pc = "init_provider") =>
                LET first == env.groq \/ GROQ_API_KEY
                    second == (env.gem \/ GEMINI_API_KEY) /\ genai_ok
                IN /\ first => procs'[p].choice = "groq"
                   /\ (~first /\ second) => procs'[p].choice = "gemini"
                   /\ (~first /\ ~second) => procs'[p].choice = "None"
          /\ (procs[p].pc = "init_provider" /\ procs'[p].pc # "init_provider") =>
                _PROVIDER' = procs[p].choice
          /\ (procs[p].pc = "avail_return" /\ procs'[p].pc = "done") =>
                (procs'[p].result.value <=> _PROVIDER \in {"groq", "gemini"})]_vars

\* Both credentials are configured and is_available() returned true with the
\* first provider resolved.
C28_FirstPreferred ==
    \E p \in Procs :
        /\ procs[p].op = "is_available" /\ procs[p].pc = "done"
        /\ procs[p].result.value
        /\ _PROVIDER = "groq"
        /\ env.groq /\ env.gem /\ genai_ok

\* C29: build_class_insights with an empty record list issues no provider
\* call and neither reads nor writes the cache, whatever other requests do
\* meanwhile, and returns the structure with student_count 0, average_error
\* 0 and empty commonErrors, suggestions and detailed.  (Of the module state
\* only the provider selection can be set, by llm_available().)
C29_EmptyClassNoEffect ==
    [][\A p \in Procs :
          (/\ procs'[p] # procs[p]
           /\ procs'[p].op = "build_class_insights"
           /\ procs'[p].analyses = << >>)
          => /\ _CACHE' = _CACHE
             /\ _METRICS' = _METRICS
             /\ procs'[p].pc \in {"init", "init_provider", "init_available",
                                  "ci_empty", "done"}
             /\ procs'[p].nreq = 0 /\ procs'[p].ngen = 0
             /\ procs'[p].pc = "done" =>
                   LET r == procs'[p].result
                   IN /\ r.kind = "class"
                      /\ r.student_count = 0 /\ r.average_error = 0
                      /\ r.commonErrors = << >> /\ r.suggestions = << >>
                      /\ r.detailed = << >>]_vars

\* The call with the empty list returned while the cache holds the payload
\* of another request.
C29_EmptyBesideCached ==
    \E p \in Procs :
        /\ procs[p].op = "build_class_insights" /\ procs[p].pc = "done"
        /\ procs[p].analyses = << >>
        /\ procs[p].result.student_count = 0
        /\ _CACHE # << >>

\* The errorPercentage of the first k records added up, a record without a
\* number counted as 0.
RECURSIVE PctTotal(_, _)
PctTotal(a, k) ==
    IF k = 0 THEN 0
    ELSE (IF "errorPercentage" \in DOMAIN a[k] THEN a[k].errorPercentage ELSE 0)
         + PctTotal(a, k - 1)

\* The requests build_class_insights answered with its heuristic summary.
HeuristicClass(p) ==
    /\ procs[p].op = "build_class_insights" /\ procs[p].pc = "done"
    /\ procs[p].payload # NoObj /\ ~procs[p].payload.llm

\* C30: the heuristic class summary has student_count equal to the number of
\* input records; average_error (in hundredths) is the mean of errorPercentage
\* over all records, a missing or unparsable value counted as 0, rounded to
\* two decimals; commonErrors are the most frequent errors, at most 8,
\* ranked by frequency and, among equally frequent ones, in first-seen
\* order; detailed has one row per record for the first 40 records.
C30_ClassFallback ==
    \A p \in Procs :
        HeuristicClass(p) =>
            LET a == procs[p].analyses
                c == procs[p].payload
                n == Len(a)
                errs == {a[i].mainError : i \in 1..n}
                Freq(e) == Cardinality({i \in 1..n : a[i].mainError = e})
                First(e) == CHOOSE i \in 1..n :
                                /\ a[i].mainError = e
                                /\ \A j \in 1..(i - 1) : a[j].mainError # e
                Before(x, y) ==
                    Freq(x) > Freq(y) \/ (Freq(x) = Freq(y) /\ First(x) < First(y))
                ce == c.commonErrors
                off == n * c.average_error - 100 * PctTotal(a, n)
            IN /\ c.student_count = n
               /\ 2 * off <= n /\ 2 * off >= 0 - n
               /\ Len(ce) <= 8
               /\ Len(ce) = 8 \/ Len(ce) = Cardinality(errs)
               /\ \A i \in 1..Len(ce) :
                    /\ ce[i] \in errs
                    /\ \A j \in (i + 1)..Len(ce) : Before(ce[i], ce[j])
                    /\ \A e \in errs \ {ce[k] : k \in 1..Len(ce)} : Before(ce[i], e)
               /\ Len(c.detailed) <= 40
               /\ Len(c.detailed) = 40 \/ Len(c.detailed) = n
               /\ \A i \in 1..Len(c.detailed) : c.detailed[i].analysisId = a[i].id

\* A class of 41 records with 9 different errors was summarized.
C30_LongClass ==
    \E p \in Procs :
        /\ HeuristicClass(p)
        /\ Len(procs[p].analyses) = 41
        /\ procs[p].payload.student_count = 41
        /\ Len(procs[p].payload.commonErrors) = 8
        /\ Len(procs[p].payload.detailed) = 40

\* The requests build_groups answered with heuristic groups.
HeuristicGroups(p) ==
    /\ procs[p].op = "build_groups" /\ procs[p].pc = "done"
    /\ procs[p].payload # NoObj /\ ~procs[p].payload.llm

\* C31: the heuristic groups partition the deduplicated records: no record
\* is a member twice, in one group or in two; the members of all groups are
\* the deduplicated records; and no group is emitted for a bucket without a
\* record, so every group has a member and no level has two groups.
C31_GroupsPartition ==
    \A p \in Procs :
        HeuristicGroups(p) =>
            LET groups == procs[p].payload.groups
                ids == MemberIds(groups)
                unique == _group_analyses_by_student(procs[p].analyses)
            IN /\ \A i, j \in 1..Len(ids) : i # j => ids[i] # ids[j]
               /\ {ids[i] : i \in 1..Len(ids)} = {unique[i].id : i \in 1..Len(unique)}
               /\ \A i \in 1..Len(groups) : groups[i].students # << >>
               /\ \A i, j \in 1..Len(groups) :
                    i # j => groups[i].level # groups[j].level

\* Two entities fell into the buckets medium and low: two groups of one
\* member each were emitted, and none for the bucket high.
C31_TwoBucketsUsed ==
    \E p \in Procs :
        /\ HeuristicGroups(p)
        /\ Len(procs[p].payload.groups) = 2
        /\ procs[p].payload.groups[1].level = "medium"
        /\ procs[p].payload.groups[2].level = "low"
        /\ MemberIds(procs[p].payload.groups) = <<"d1", "c2">>

\* An entry of the cache, the cached mark of its payload apart (the mark is
\* set by the caller of the get, line 126).
Unmarked(e) == [e EXCEPT !.data.cached = FALSE]

\* C32: a cache get does not modify the mapping.  A get that reports absent,
\* for a missing or an expired entry, leaves the whole mapping as it is, the
\* expired entry included; after a get that hits, the keys, the timestamps
\* and the payloads are the same; and in any step an entry stays in the
\* mapping with its payload and timestamp unless the step is a put for its
\* key.
C32_GetLeavesMapping ==
    [][/\ \A p \in Procs :
            (procs[p].pc \in {"bg_read", "ci_read"} /\ procs'[p] # procs[p]) =>
                /\ DOMAIN _CACHE' = DOMAIN _CACHE
                /\ \A k \in DOMAIN _CACHE : Unmarked(_CACHE'[k]) = Unmarked(_CACHE[k])
                /\ procs'[p].pc # "done" => _CACHE' = _CACHE
       /\ \A k \in DOMAIN _CACHE :
            /\ k \in DOMAIN _CACHE'
            /\ \/ Unmarked(_CACHE'[k]) = Unmarked(_CACHE[k])
               \/ \E p \in Procs :
                     /\ procs[p].payload = NoObj /\ procs'[p].payload # NoObj
                     /\ KeyOf(procs'[p]) = k]_vars

\* A request missed an entry that had expired, and the entry is still in the
\* mapping.
C32_ExpiredStays ==
    \E p \in Procs :
        /\ procs[p].op \in BuildOps /\ ~procs[p].force
        /\ procs[p].pc = "init"
        /\ KeyOf(procs[p]) \in DOMAIN _CACHE
        /\ now - _CACHE[KeyOf(procs[p])].ts > CACHE_TTL_SECONDS

\* C33: while the credential environment is as it was at the start, all
\* generate / is_available calls, concurrent first calls included, observe
\* the same provider and the same availability.
C33_RaceSafe ==
    nenv = 0 =>
        \A p, q \in Procs :
            (procs[p].obs # "unset" /\ procs[q].obs # "unset")
            => procs[p].obs = procs[q].obs

\* C34: a build_groups or build_class_insights request that computed its
\* payload was handed it with cached = false, and what it holds stays as it
\* was handed out, whatever cache hits other requests make on the key.
C34_HandedPayloadStable ==
    \A p \in Procs :
        (/\ procs[p].op \in BuildOps /\ procs[p].pc = "done"
         /\ procs[p].payload # NoObj)
        => /\ ~procs[p].payload.cached
           /\ Deref(procs[p].result) = procs[p].payload

\* The request q computed the heuristic grouping after its model call failed,
\* and the entry it stored under key is still the one in the cache.
FailedOver(q, key) ==
    /\ procs[q].op = "build_groups" /\ procs[q].pc = "done"
    /\ procs[q].ngen > 0
    /\ procs[q].payload # NoObj /\ ~procs[q].payload.llm
    /\ KeyOf(procs[q]) = key
    /\ procs[q].result = Entry(key)

\* C35: the heuristic result of a failed model call is cached under the key
\* of the input: a following build_groups call with the same input and
\* force = False within the TTL returns that payload with llm = false and
\* cached = true and issues no provider attempt, although the provider is
\* available.
C35_FailureResultServed ==
    [][\A p \in Procs :
          LET key == KeyOf(procs[p])
          IN (/\ procs[p].op = "build_groups" /\ procs[p].pc = "bg_read"
              /\ procs'[p].pc # "bg_read"
              /\ \E q \in Procs \ {p} : FailedOver(q, key)
              /\ now - _CACHE[key].ts <= CACHE_TTL_SECONDS
              /\ _LLM_AVAILABLE)
             => /\ procs'[p].pc = "done"
                /\ procs'[p].result = Entry(key)
                /\ \A q \in Procs \ {p} :
                      FailedOver(q, key)
                      => _CACHE'[key].data = [procs[q].payload EXCEPT !.cached = TRUE]
                /\ ~_CACHE'[key].data.llm
                /\ procs'[p].nreq = 0 /\ procs'[p].ngen = 0
                /\ _METRICS' = _METRICS]_vars

\* A call was served the heuristic result of an earlier failed model call
\* while the provider was available.
C35_ServedAfterFailure ==
    \E p \in Procs :
        /\ procs[p].op = "build_groups" /\ procs[p].pc = "done"
        /\ procs[p].payload = NoObj /\ ~procs[p].force
        /\ procs[p].nreq = 0
        /\ procs[p].result.kind = "entry"
        /\ \E q \in Procs \ {p} : FailedOver(q, procs[p].result.key)
        /\ _CACHE[procs[p].result.key].data.cached
        /\ ~_CACHE[procs[p].result.key].data.llm
        /\ _LLM_AVAILABLE
        /\ _METRICS.requests > 0

\* C36: on the model path a normalized group member keeps the record
\* reference the model returned: its analysisId in the output of build_groups
\* is the analysisId of the student object in the model payload.
C36_ReferenceKept ==
    [][\A p \in Procs :
          LET d == procs[p].gres.data
          IN (/\ procs[p].op = "build_groups" /\ procs[p].pc = "bg_generated"
              /\ procs'[p].pc = "done"
              /\ procs[p].gres.success /\ "student" \in DOMAIN d
              /\ "analysisId" \in DOMAIN d.student)
             => \A i \in 1..Len(procs'[p].payload.groups) :
                  \A j \in 1..Len(procs'[p].payload.groups[i].students) :
                    procs'[p].payload.groups[i].students[j].analysisId
                      = d.student.analysisId]_vars

\* C37: generate sleeps after every failed attempt, the last one included: a
\* call with max_retries = r whose r+1 attempts all fail has slept
\* 0.5 * (1 + 2 + ... + (r+1)) seconds when it returns the failure result,
\* the final 0.5 * (r+1) of them after its last attempt.  Sleeps are counted
\* in half seconds.
C37_SleepsAfterLastAttempt ==
    [][\A p \in Procs :
          LET r == procs[p].max_retries
          IN /\ (/\ procs[p].pc = "gen_call" /\ procs'[p].pc = "gen_loop"
                 /\ procs[p].attempt = r)
                => /\ procs'[p].slept = procs[p].slept + (r + 1)
                   /\ ~LoopContinues(procs'[p].attempt, r)
             /\ (/\ procs[p].pc = "gen_loop" /\ procs'[p].pc = procs[p].gret
                 /\ procs'[p].gres = GenFailed)
                => /\ procs[p].nreq = r + 1
                   /\ 2 * procs'[p].slept = (r + 1) * (r + 2)]_vars

\* A call with one retry failed twice and is about to return the failure
\* result, a second and a half of sleep behind it.
C37_ExhaustedAfterTwo ==
    \E p \in Procs :
        /\ procs[p].pc = "gen_return" /\ procs[p].gres = GenFailed
        /\ procs[p].max_retries = 1 /\ procs[p].nreq = 2
        /\ procs[p].slept = 3

\* C38: after any sequence of generate calls, requests is the number of
\* provider attempts issued and errors the number of attempts that ended in
\* an exception, an attempt whose text held no JSON not among them; errors is
\* at most requests; a generate call on an unavailable gateway changes no
\* counter; and under concurrent calls no increment is lost.
C38_MetricsExact ==
    /\ [](/\ _METRICS.requests = procs[1].nreq + procs[2].nreq
          /\ _METRICS.errors = procs[1].nerr + procs[2].nerr
          /\ _METRICS.errors <= _METRICS.requests)
    /\ [][\A p \in Procs :
            (/\ procs[p].pc = "gen_check" /\ procs'[p].pc # "gen_check"
             /\ procs'[p].gres = GenDisabled)
            => _METRICS' = _METRICS]_vars

\* C39: database initialization is safe under concurrent first calls: the
\* client is created at most once, and once _ensure_initialized has returned
\* to a caller both collection handles are set, so that no helper observes a
\* client that is set together with a collection handle that is None.
C39_InitSafe ==
    /\ nclients <= 1
    /\ \A p \in Procs :
          /\ procs[p].pc \in {"helper", "insert"}
             => _students_col # "None" /\ _analyses_col # "None"
          /\ (procs[p].pc = "done" /\ procs[p].op = "list_students")
             => procs[p].result.handle # "None"
          /\ (procs[p].pc = "raised" /\ procs[p].op = "create_student")
             => procs[p].result.error # "RuntimeError"

\* The letters of a name or class that a case-insensitive comparison
\* looks at.
Caseless(s) ==
    CASE s = "Anna Smith" -> "anna smith"
      [] s = "Bruno Johnson" -> "bruno johnson"
      [] s = "Caio Lima" -> "caio lima"
      [] s = "5th A" -> "5th a"
      [] OTHER -> s

\* C40: create_student never leaves two students with the same name and
\* class, compared case-insensitively, in the store: a create that duplicates
\* an existing student fails with ValueError and leaves the store unchanged,
\* also when two creates of the same student run concurrently.
C40_NoDuplicateStudents ==
    /\ [](\A s, t \in students :
            (/\ Caseless(s.name) = Caseless(t.name)
             /\ Caseless(s.class_name) = Caseless(t.class_name))
            => s = t)
    /\ [][\A p \in Procs :
            (/\ procs[p].op = "create_student" /\ procs'[p].pc = "done"
             /\ procs[p].pc # "done")
            => ~\E s \in students :
                   /\ Caseless(s.name) = Caseless(procs[p].student.name)
                   /\ Caseless(s.class_name) = Caseless(procs[p].student.class_name)]_vars
====
